---- MODULE Spec2Model ----
(***************************************************************************)
(* A model of the secret-resolution pipeline of vx:                        *)
(*   - the KV cache (internal/resolver, Cache),                            *)
(*   - the resolver (internal/resolver, Resolver, GroupByPath),            *)
(*   - the config merger (internal/config, Merge).                         *)
(* Go maps are reference values: they live in `heap`, and the program's    *)
(* fields hold references into it, so aliasing is visible to the model.    *)
(* Strings that are parsed (path templates) are sequences of tokens; the   *)
(* token "${env}" stands for the six-character placeholder, "/" for the    *)
(* separator.                                                              *)
(***************************************************************************)
EXTENDS Integers, Sequences, FiniteSets, TLC

VARIABLES
    heap,       \* Go heap of map[string]string objects: ref -> contents
    held,       \* refs a caller of the cache holds (arguments and results)
    now,        \* the clock read by time.Now()
    ttl,        \* Cache.ttl
    entries,    \* Cache.entries: path -> [data: ref, expiresAt]
    rw,         \* Cache.mu: [readers: set of goroutines, writer: set]
    gpc,        \* each cache client's position
    gop,        \* each cache client's current call: arguments, result, and (history)
                \* for a Get: the time it read and the Set of its path then on record
    opsLeft,    \* calls the clients may still issue
    hist,       \* history: per path, the most recent Set and whether a Clear followed
    seen,       \* history: outcomes a Get could have had since it was issued
    mroot,      \* Merge's root *RootConfig (NilCfg, or its fields)
    mws,        \* Merge's workspace *WorkspaceConfig (NilCfg, or its fields)
    menv,       \* Merge's env argument
    mcalls,     \* the Merge calls made so far: what each returned
    minput,     \* history: the inputs' containers, by value, before any call
    mwrites,    \* writes the caller has made into returned maps
    rin,        \* the resolver's inputs: secrets, env, basePath, the reader, cache or not
    rcall,      \* the Resolve in progress: maxConcurrency, groups, paths not yet dispatched
    rpc,        \* Resolve's caller: "idle", "dispatch" (in fetchAll's loop), "wait"
    tpc,        \* per vault path, its fetch task's position
    tdata,      \* per vault path, the data its task holds
    results,    \* fetchAll's results map
    sem,        \* errgroup: tasks holding a slot of the limit
    gerr,       \* errgroup: the first error returned by a task
    rhist,      \* the Resolve calls that have returned: what each was given and returned
    sink,       \* the token sink file: NoFile, or its bytes
    pidfile,    \* the PID file: NoFile, or its bytes
    vault,      \* the Vault server: the answers lookup-self and renew-self may give
    procs,      \* the processes that own a Daemon
    stopc,      \* per process, whether its Daemon's stop channel is closed
    dpc,        \* per process, where its caller is: "idle", or inside Start
    starts,     \* per process, the Start calls made so far (each with a context of its own)
    cancelled,  \* per process, the contexts that have been cancelled
    loops,      \* per process, its supervisor goroutines: position and RenewOnce in progress
    lastRenewal,\* per process, Daemon.lastRenewal
    calls,      \* direct calls of RenewOnce in progress (outside a daemon)
    dlog,       \* history: per process, what its Daemon's calls returned
    rlog,       \* history: the last RenewOnce that returned, and the last query
    xin,        \* vx exec's inputs: the parent's environ, defaults, secrets, argv, whether spawning works
    xrun,       \* runExec and Run: position, the envVars map's ref, the forwarding goroutine, ctx
    xchild,     \* the child process: state, environment, the signals it received, its wait error
    xsig,       \* sigChan: the signals buffered for the forwarding loop
    xsent,      \* history: the signals delivered to the parent while they were notified
    xout,       \* what Run returned and the exit code runExec made of it
    xauth       \* vx exec's fresh authentication: inputs, position, the client's token, requests sent

cacheVars == <<held, now, ttl, entries, rw, gpc, gop, opsLeft, hist, seen>>

mergeVars == <<mroot, mws, menv, mcalls, minput, mwrites>>

resolverVars == <<rin, rcall, rpc, tpc, tdata, results, sem, gerr, rhist>>

tokenVars == <<sink, pidfile, vault, procs, stopc, dpc, starts, cancelled, loops, lastRenewal,
               calls, dlog, rlog>>

execVars == <<xin, xrun, xchild, xsig, xsent, xout, xauth>>

nonCacheVars == <<mergeVars, resolverVars, tokenVars, execVars>>

vars == <<heap, cacheVars, mergeVars, resolverVars, tokenVars, execVars>>

-----------------------------------------------------------------------------
(* Bounds and input domains *)

MaxTime == 2
MaxCacheOps == 3
MaxMergeCalls == 2
MaxResultWrites == 1
MaxResolves == 2
MaxStarts == 2

Keys == {"k1", "k2"}
Vals == {"a", "b", "x"}
MutVals == {"x"}
CachePaths == {"p", "q"}
Clients == {"g1", "g2"}
TTLArgs == {0, 1}

NoSet == [set |-> FALSE, cleared |-> FALSE]
NilCfg == [nil |-> TRUE]
NilRef == 0
NoCall == [op |-> "none"]

\* LET x == v IN F(x), with v evaluated once
Bind(v, F(_)) == F(v)

Max(S) == CHOOSE x \in S : \A y \in S : y <= x

HasPair(m, k, v) == k \in DOMAIN m /\ m[k] = v

\* map[string]string values over the model's keys
MapValues == UNION {[D -> Vals] : D \in SUBSET Keys}

-----------------------------------------------------------------------------
(* internal/resolver cache *)

defaultCacheTTL == 300

\* NewCache: a zero or negative ttl takes the default.
NewCacheTTL(arg) == IF arg <= 0 THEN defaultCacheTTL ELSE arg

NewRef(h) == IF DOMAIN h = {} THEN 1 ELSE Max(DOMAIN h) + 1

\* copyMap, mutated: hands back the map it was given.
copyMapAlias(h, r) == [heap |-> h, ref |-> r]

\* copyMap: a new map with the same pairs.
copyMap(h, r) ==
    [heap |-> (NewRef(h) :> h[r]) @@ h, ref |-> NewRef(h)]

\* Expiry test, mutated: Before for After.
ExpiredBefore(entry, t) == t < entry.expiresAt

\* time.Now().After(entry.expiresAt)
Expired(entry, t) == t > entry.expiresAt

\* sync.RWMutex, mutated: a read lock that never blocks.
RLockFree(g) == TRUE

\* c.mu.RLock() can return
RLockEnabled(g) == rw.writer = {}

\* c.mu.Lock() can return
LockEnabled(g) == rw.writer = {} /\ rw.readers = {}

\* A map write of another goroutine is in progress (unreachable under c.mu).
WriteInFlight(g) == \E w \in Clients \ {g} : gpc[w] = "set_storing"

\* What the history says a Get(p) taking effect now returns.
AbsGet(p, h, t, d) ==
    IF h[p].set /\ ~h[p].cleared /\ ~(t > h[p].t0 + d)
    THEN [ok |-> TRUE, m |-> h[p].m]
    ELSE [ok |-> FALSE]

GetPcs == {"get_rlock", "get_read"}

\* seen[g]: every outcome the history allowed between g's call of Get and
\* its return; kept after the return, until g's next call.
TrackSeen ==
    seen' = [g \in Clients |->
                IF gpc[g] \in GetPcs
                THEN seen[g] \cup {AbsGet(gop[g].path, hist', now', ttl')}
                ELSE IF gpc'[g] \in GetPcs
                     THEN {AbsGet(gop'[g].path, hist', now', ttl')}
                     ELSE seen[g]]

\* A caller issues c.Get(path).
CallGet(g, p) ==
    /\ gpc[g] = "idle" /\ opsLeft > 0
    /\ gpc' = [gpc EXCEPT ![g] = "get_rlock"]
    /\ gop' = [gop EXCEPT ![g] = [op |-> "get", path |-> p]]
    /\ opsLeft' = opsLeft - 1
    /\ UNCHANGED <<heap, held, now, ttl, entries, rw, hist, nonCacheVars>>
    /\ TrackSeen

\* c.mu.RLock() returns.
GetRLock(g) ==
    /\ gpc[g] = "get_rlock"
    /\ RLockEnabled(g)
    /\ rw' = [rw EXCEPT !.readers = @ \cup {g}]
    /\ gpc' = [gpc EXCEPT ![g] = "get_read"]
    /\ UNCHANGED <<heap, held, now, ttl, entries, gop, opsLeft, hist, nonCacheVars>>
    /\ TrackSeen

\* What Get's body returns: the entry is looked up, its expiry tested and its
\* data copied. A read that overlaps a map write is a data race and yields
\* anything.
GetOutcomes(g, p) ==
    IF WriteInFlight(g)
    THEN {[ok |-> FALSE, heap |-> heap]}
         \cup {[ok |-> TRUE, ref |-> NewRef(heap),
                heap |-> (NewRef(heap) :> m) @@ heap] : m \in MapValues}
    ELSE IF p \notin DOMAIN entries \/ Expired(entries[p], now)
         THEN {[ok |-> FALSE, heap |-> heap]}
         ELSE LET c == copyMap(heap, entries[p].data)
              IN {[ok |-> TRUE, ref |-> c.ref, heap |-> c.heap]}

\* Get's body runs, the deferred RUnlock releases the lock and Get returns;
\* the caller now holds the returned map.
GetRead(g) ==
    /\ gpc[g] = "get_read"
    /\ \E o \in GetOutcomes(g, gop[g].path) :
          /\ heap' = o.heap
          /\ gop' = [gop EXCEPT ![g] =
                        IF o.ok
                        THEN [op |-> "get", path |-> gop[g].path, ok |-> TRUE, ref |-> o.ref,
                              m |-> o.heap[o.ref], at |-> now, h |-> hist[gop[g].path]]
                        ELSE [op |-> "get", path |-> gop[g].path, ok |-> FALSE, at |-> now,
                              h |-> hist[gop[g].path]]]
          /\ held' = IF o.ok THEN held \cup {o.ref} ELSE held
    /\ rw' = [rw EXCEPT !.readers = @ \ {g}]
    /\ gpc' = [gpc EXCEPT ![g] = "idle"]
    /\ UNCHANGED <<now, ttl, entries, opsLeft, hist, nonCacheVars>>
    /\ TrackSeen

\* c.Set(path, data) is called with a map the caller holds and takes the lock.
SetLock(g, p, r) ==
    /\ gpc[g] = "idle" /\ opsLeft > 0
    /\ r \in held
    /\ LockEnabled(g)
    /\ rw' = [rw EXCEPT !.writer = {g}]
    /\ gpc' = [gpc EXCEPT ![g] = "set_store"]
    /\ gop' = [gop EXCEPT ![g] = [op |-> "set", path |-> p, data |-> r]]
    /\ opsLeft' = opsLeft - 1
    /\ UNCHANGED <<heap, held, now, ttl, entries, hist, nonCacheVars>>
    /\ TrackSeen

\* c.entries[path] = cacheEntry{copyMap(data), time.Now().Add(c.ttl)}: the
\* right-hand side is built, then the map write starts.
SetStoreBegin(g) ==
    /\ gpc[g] = "set_store"
    /\ LET c == copyMap(heap, gop[g].data) IN
       /\ heap' = c.heap
       /\ gop' = [gop EXCEPT ![g] = [op |-> "set", path |-> gop[g].path, data |-> gop[g].data,
                                      entry |-> [data |-> c.ref, expiresAt |-> now + ttl],
                                      m |-> heap[gop[g].data], t0 |-> now]]
    /\ gpc' = [gpc EXCEPT ![g] = "set_storing"]
    /\ UNCHANGED <<held, now, ttl, entries, rw, opsLeft, hist, nonCacheVars>>
    /\ TrackSeen

\* The map write completes (the entry replaces any earlier one of the path),
\* the deferred Unlock releases the lock and Set returns.
SetStoreEnd(g) ==
    /\ gpc[g] = "set_storing"
    /\ LET p == gop[g].path IN
       /\ entries' = [x \in DOMAIN entries \cup {p} |-> IF x = p THEN gop[g].entry ELSE entries[x]]
       /\ hist' = [hist EXCEPT ![p] = [set |-> TRUE, cleared |-> FALSE, m |-> gop[g].m,
                                        t0 |-> gop[g].t0, src |-> gop[g].data]]
    /\ rw' = [rw EXCEPT !.writer = @ \ {g}]
    /\ gpc' = [gpc EXCEPT ![g] = "idle"]
    /\ gop' = [gop EXCEPT ![g] = [op |-> "set", path |-> gop[g].path]]
    /\ UNCHANGED <<heap, held, now, ttl, opsLeft, nonCacheVars>>
    /\ TrackSeen

\* c.Clear() is called and takes the lock.
ClearLock(g) ==
    /\ gpc[g] = "idle" /\ opsLeft > 0
    /\ LockEnabled(g)
    /\ rw' = [rw EXCEPT !.writer = {g}]
    /\ gpc' = [gpc EXCEPT ![g] = "clear_store"]
    /\ gop' = [gop EXCEPT ![g] = [op |-> "clear"]]
    /\ opsLeft' = opsLeft - 1
    /\ UNCHANGED <<heap, held, now, ttl, entries, hist, nonCacheVars>>
    /\ TrackSeen

\* c.entries = make(map[string]cacheEntry); the lock is released and Clear
\* returns.
ClearStore(g) ==
    /\ gpc[g] = "clear_store"
    /\ entries' = <<>>
    /\ hist' = [p \in CachePaths |-> [hist[p] EXCEPT !.cleared = TRUE]]
    /\ rw' = [rw EXCEPT !.writer = @ \ {g}]
    /\ gpc' = [gpc EXCEPT ![g] = "idle"]
    /\ UNCHANGED <<heap, held, now, ttl, gop, opsLeft, nonCacheVars>>
    /\ TrackSeen

\* A caller writes m[k] = v into a map it holds (one it passed to Set, or one
\* Get returned to it).
Mutate(r, k, v) ==
    /\ opsLeft > 0
    /\ r \in held
    /\ ~HasPair(heap[r], k, v)
    /\ heap' = (r :> ((k :> v) @@ heap[r])) @@ heap
    /\ opsLeft' = opsLeft - 1
    /\ UNCHANGED <<held, now, ttl, entries, rw, gpc, gop, hist, nonCacheVars>>
    /\ TrackSeen

\* Wall-clock time passes.
Tick ==
    /\ now < MaxTime
    /\ now' = now + 1
    /\ UNCHANGED <<heap, held, ttl, entries, rw, gpc, gop, opsLeft, hist, nonCacheVars>>
    /\ TrackSeen

\* No cache is in use.
IdleCache ==
    /\ held = {} /\ now = 0 /\ ttl = 0 /\ entries = <<>>
    /\ rw = [readers |-> {}, writer |-> {}]
    /\ gpc = [g \in Clients |-> "idle"]
    /\ gop = [g \in Clients |-> NoCall]
    /\ opsLeft = 0
    /\ hist = [p \in CachePaths |-> NoSet]
    /\ seen = [g \in Clients |-> {}]

\* No resolver exists.
IdleResolver ==
    /\ rin = NilCfg /\ rcall = NilCfg /\ rpc = "idle"
    /\ tpc = <<>> /\ tdata = <<>> /\ results = <<>>
    /\ sem = 0 /\ gerr = <<>> /\ rhist = <<>>

\* No daemon process exists.
IdleDaemon ==
    /\ procs = {} /\ stopc = <<>> /\ dpc = <<>> /\ starts = <<>> /\ cancelled = <<>>
    /\ loops = <<>> /\ lastRenewal = <<>> /\ dlog = <<>>

\* No command is being run.
IdleExec ==
    /\ xin = NilCfg /\ xrun = NilCfg /\ xchild = NilCfg
    /\ xsig = <<>> /\ xsent = <<>> /\ xout = NilCfg /\ xauth = NilCfg

\* No token is managed.
IdleTokenOnly ==
    /\ sink = NilCfg /\ pidfile = NilCfg /\ vault = NilCfg
    /\ calls = NilCfg /\ rlog = NilCfg
    /\ IdleDaemon

IdleToken == IdleTokenOnly /\ IdleExec

\* No config is being merged.
IdleMerge ==
    /\ mroot = NilCfg /\ mws = NilCfg /\ menv = ""
    /\ mcalls = <<>> /\ minput = <<>> /\ mwrites = 0

\* c := NewCache(arg); the callers hold two maps of their own.
InitCache ==
    /\ heap = (1 :> [k \in Keys |-> "a"]) @@ (2 :> [k \in {"k1"} |-> "b"])
    /\ held = {1, 2}
    /\ now = 0
    /\ ttl \in {NewCacheTTL(a) : a \in TTLArgs}
    /\ entries = <<>>
    /\ rw = [readers |-> {}, writer |-> {}]
    /\ gpc = [g \in Clients |-> "idle"]
    /\ gop = [g \in Clients |-> NoCall]
    /\ opsLeft = MaxCacheOps
    /\ hist = [p \in CachePaths |-> NoSet]
    /\ seen = [g \in Clients |-> {}]
    /\ IdleMerge
    /\ IdleResolver
    /\ IdleToken

NextCache ==
    \/ \E g \in Clients, p \in CachePaths : CallGet(g, p)
    \/ \E g \in Clients : GetRLock(g)
    \/ \E g \in Clients : GetRead(g)
    \/ \E g \in Clients, p \in CachePaths, r \in held : SetLock(g, p, r)
    \/ \E g \in Clients : SetStoreBegin(g)
    \/ \E g \in Clients : SetStoreEnd(g)
    \/ \E g \in Clients : ClearLock(g)
    \/ \E g \in Clients : ClearStore(g)
    \/ \E r \in held, k \in Keys, v \in MutVals : Mutate(r, k, v)
    \/ Tick

SpecCache == InitCache /\ [][NextCache]_vars

-----------------------------------------------------------------------------
(* internal/config: Merge *)

\* Go's map iteration order is unspecified: a range loop visits the keys of
\* its map in the order `order` lists them, and each call of Merge draws its
\* own: the keys ascending or descending.
Reverse(q) == [i \in 1..Len(q) |-> q[Len(q) + 1 - i]]
SecretKeys == <<"A", "B", "C">>
DefaultKeys == <<"K", "dev", "prod">>
Orders == {[sk |-> SecretKeys, dk |-> DefaultKeys],
           [sk |-> Reverse(SecretKeys), dk |-> Reverse(DefaultKeys)]}

\* The pairs of the map at r; a nil map has none.
Deref(h, r) == IF r = NilRef THEN <<>> ELSE h[r]

\* The keys of m in the order a range loop visits them.
RangeKeys(m, order) == SelectSeq(order, LAMBDA k : k \in DOMAIN m)

\* make(map...)
MakeMap(h) == [heap |-> (NewRef(h) :> <<>>) @@ h, ref |-> NewRef(h)]

\* m[k] = v on the map at r
Put(h, r, k, v) ==
    (r :> ((k :> v) @@ h[r])) @@ h

\* for k, v := range src { dst[k] = v }, in the order ks
RECURSIVE PutEach(_, _, _, _)
PutEach(h, dst, src, ks) ==
    IF ks = <<>> THEN h
    ELSE PutEach(Put(h, dst, Head(ks), src[Head(ks)]), dst, src, Tail(ks))

\* for k, val := range src { if str, ok := val.(string); ok { dst[k] = str } }
RECURSIVE PutEachString(_, _, _, _)
PutEachString(h, dst, src, ks) ==
    IF ks = <<>> THEN h
    ELSE PutEachString(IF src[Head(ks)].t = "str" THEN Put(h, dst, Head(ks), src[Head(ks)].s) ELSE h,
                       dst, src, Tail(ks))

\* contains(items, target)
contains(items, target) == \E i \in 1..Len(items) : items[i] = target

copyStringMap(h, src, order) ==
    Bind(MakeMap(h), LAMBDA mk :
        [heap |-> PutEach(mk.heap, mk.ref, Deref(h, src), RangeKeys(Deref(h, src), order)),
         ref |-> mk.ref])

extractEnvDefaults(h, defaults, env, order) ==
    Bind(MakeMap(h), LAMBDA mk :
    Bind(Deref(h, defaults), LAMBDA d :
        IF env \notin DOMAIN d THEN mk
        ELSE IF d[env].t # "tbl" THEN mk
        ELSE Bind(Deref(h, d[env].ref), LAMBDA envMap :
                 [heap |-> PutEachString(mk.heap, mk.ref, envMap, RangeKeys(envMap, order)),
                  ref |-> mk.ref])))

\* resolveDefaults, mutated: the base defaults are laid over the env-specific ones.
resolveDefaultsBaseLast(h, defaults, env, order) ==
    Bind(extractEnvDefaults(h, defaults, env, order), LAMBDA e :
    Bind(Deref(h, defaults), LAMBDA d :
        [heap |-> PutEachString(e.heap, e.ref, d, RangeKeys(d, order)), ref |-> e.ref]))

resolveDefaults(h, defaults, env, order) ==
    Bind(MakeMap(h), LAMBDA mk :
    Bind(Deref(h, defaults), LAMBDA d :
    Bind(PutEachString(mk.heap, mk.ref, d, RangeKeys(d, order)), LAMBDA h1 :
    Bind(extractEnvDefaults(h1, defaults, env, order), LAMBDA e :
    Bind(e.heap[e.ref], LAMBDA envDefaults :
        [heap |-> PutEach(e.heap, mk.ref, envDefaults, RangeKeys(envDefaults, order)),
         ref |-> mk.ref])))))

mergeWorkspaceDefaults(h, base, workspace, env, order) ==
    IF workspace = NilCfg THEN copyStringMap(h, base, order)
    ELSE Bind(copyStringMap(h, base, order), LAMBDA result :
         Bind(resolveDefaults(result.heap, workspace.defaults, env, order), LAMBDA w :
         Bind(w.heap[w.ref], LAMBDA wsDefaults :
             [heap |-> PutEach(w.heap, result.ref, wsDefaults, RangeKeys(wsDefaults, order)),
              ref |-> result.ref])))

\* mergeSecrets, mutated: the overlay is written into the root's own map.
mergeSecretsInPlace(h, rootSecrets, workspace, order) ==
    Bind(IF rootSecrets = NilRef THEN MakeMap(h) ELSE [heap |-> h, ref |-> rootSecrets], LAMBDA result :
        IF workspace = NilCfg THEN result
        ELSE Bind(Deref(result.heap, workspace.secrets), LAMBDA ws :
                 [heap |-> PutEach(result.heap, result.ref, ws, RangeKeys(ws, order)),
                  ref |-> result.ref]))

\* mergeSecrets, mutated: a key of the root is kept.
mergeSecretsRootWins(h, rootSecrets, workspace, order) ==
    Bind(copyStringMap(h, rootSecrets, order), LAMBDA result :
        IF workspace = NilCfg THEN result
        ELSE Bind(Deref(result.heap, workspace.secrets), LAMBDA ws :
             Bind([k \in DOMAIN ws \ DOMAIN result.heap[result.ref] |-> ws[k]], LAMBDA new :
                 [heap |-> PutEach(result.heap, result.ref, new, RangeKeys(new, order)),
                  ref |-> result.ref])))

mergeSecrets(h, rootSecrets, workspace, order) ==
    Bind(copyStringMap(h, rootSecrets, order), LAMBDA result :
        IF workspace = NilCfg THEN result
        ELSE Bind(Deref(result.heap, workspace.secrets), LAMBDA ws :
                 [heap |-> PutEach(result.heap, result.ref, ws, RangeKeys(ws, order)),
                  ref |-> result.ref]))

\* Merge(root, workspace, env): the new heap and what is returned.
\* Merge, mutated: the environment is not looked up in Environments.Available.
MergeAnyEnv(h, root, workspace, env0, ord) ==
    IF root = NilCfg THEN [heap |-> h, err |-> "root config is required"]
    ELSE Bind(IF env0 = "" THEN root.environments.default ELSE env0, LAMBDA env :
         Bind(resolveDefaults(h, root.defaults, env, ord.dk), LAMBDA d0 :
         Bind(mergeWorkspaceDefaults(d0.heap, d0.ref, workspace, env, ord.dk), LAMBDA defaults :
         Bind(mergeSecrets(defaults.heap, root.secrets, workspace, ord.sk), LAMBDA secrets :
             [heap |-> secrets.heap, err |-> "",
              cfg |-> [vault |-> root.vault, environment |-> env,
                       secrets |-> secrets.ref, defaults |-> defaults.ref]]))))

Merge(h, root, workspace, env0, ord) ==
    IF root = NilCfg THEN [heap |-> h, err |-> "root config is required"]
    ELSE Bind(IF env0 = "" THEN root.environments.default ELSE env0, LAMBDA env :
         IF ~contains(root.environments.available, env)
         THEN [heap |-> h, err |-> "environment is not in available environments"]
         ELSE Bind(resolveDefaults(h, root.defaults, env, ord.dk), LAMBDA d0 :
              Bind(mergeWorkspaceDefaults(d0.heap, d0.ref, workspace, env, ord.dk), LAMBDA defaults :
              Bind(mergeSecrets(defaults.heap, root.secrets, workspace, ord.sk), LAMBDA secrets :
                  [heap |-> secrets.heap, err |-> "",
                   cfg |-> [vault |-> root.vault, environment |-> env,
                            secrets |-> secrets.ref, defaults |-> defaults.ref]]))))

\* Values of a map[string]any: a string, another scalar, a nested table.
Str(x) == [t |-> "str", s |-> x]
Num == [t |-> "num"]
Tbl(r) == [t |-> "tbl", ref |-> r]

\* The shapes a [defaults] section is drawn from: K a string, a number or
\* absent; dev a string, a table (K a string or a number) or absent; prod a
\* table or absent.
DefaultsShapes ==
    [k : {"absent", "str", "num"}, dev : {"absent", "str", "tblstr", "tblnum"}, prod : {"absent", "tblstr"}]

WorkspaceDefaultsShapes == {c \in DefaultsShapes : c.prod = "absent"}

\* The map of shape c; its strings are named after the layer (nm).
DefaultsMap(c, nm, devRef, prodRef) ==
    [x \in {y \in {"K"} : c.k # "absent"} \cup {y \in {"dev"} : c.dev # "absent"}
           \cup {y \in {"prod"} : c.prod # "absent"} |->
        CASE x = "K" -> IF c.k = "str" THEN Str(nm.b) ELSE Num
          [] x = "dev" -> IF c.dev = "str" THEN Str(nm.s) ELSE Tbl(devRef)
          [] x = "prod" -> Tbl(prodRef)]

DevTable(c, nm) ==
    IF c.dev = "tblstr" THEN [x \in {"K"} |-> Str(nm.d)]
    ELSE IF c.dev = "tblnum" THEN [x \in {"K"} |-> Num]
    ELSE <<>>

ProdTable(c, nm) == IF c.prod = "tblstr" THEN [x \in {"K"} |-> Str(nm.p)] ELSE <<>>

RootNames == [b |-> "root-base", s |-> "root-dev-string", d |-> "root-dev", p |-> "root-prod"]
WsNames == [b |-> "ws-base", s |-> "ws-dev-string", d |-> "ws-dev", p |-> "ws-prod"]

RootSecretsChoices == {<<>>, [x \in {"A", "B"} |-> IF x = "A" THEN "root/a" ELSE "root/b"]}
WsSecretsChoices == {<<>>, [x \in {"A", "C"} |-> IF x = "A" THEN "ws/a" ELSE "ws/c"]}
EnvArgs == {"", "dev", "prod", "qa"}
DefaultEnvs == {"dev", "qa"}

\* The inputs' containers by value: secrets, defaults and the nested tables.
DeepDefaults(h, r) ==
    LET d == Deref(h, r)
    IN [k \in DOMAIN d |-> IF d[k].t = "tbl" THEN [t |-> "tbl", m |-> Deref(h, d[k].ref)] ELSE d[k]]

ConfigView(h, c) ==
    IF c = NilCfg THEN NilCfg
    ELSE [secrets |-> Deref(h, c.secrets), defaults |-> DeepDefaults(h, c.defaults)]

InputView(h) == [root |-> ConfigView(h, mroot), ws |-> ConfigView(h, mws)]

\* The configs as loaded: the root's maps at refs 1-4, the workspace's at 5-8.
\* A section missing from the file leaves a nil map; the root itself may be
\* nil, and its default environment may be one it does not list.
InitMerge ==
    /\ \E rc \in DefaultsShapes, wc \in WorkspaceDefaultsShapes,
          rs \in RootSecretsChoices, wsec \in WsSecretsChoices,
          rnil \in BOOLEAN, wpresent \in BOOLEAN, noroot \in BOOLEAN,
          dflt \in DefaultEnvs :
          /\ noroot => (rnil /\ dflt = "dev")
          /\ rnil => (rc = [k |-> "absent", dev |-> "absent", prod |-> "absent"] /\ rs = <<>>)
          /\ ~wpresent => (wc = [k |-> "absent", dev |-> "absent", prod |-> "absent"] /\ wsec = <<>>)
          /\ heap = [r \in 1..8 |->
                        CASE r = 1 -> rs
                          [] r = 2 -> DefaultsMap(rc, RootNames, 3, 4)
                          [] r = 3 -> DevTable(rc, RootNames)
                          [] r = 4 -> ProdTable(rc, RootNames)
                          [] r = 5 -> wsec
                          [] r = 6 -> DefaultsMap(wc, WsNames, 7, 8)
                          [] r = 7 -> DevTable(wc, WsNames)
                          [] r = 8 -> ProdTable(wc, WsNames)]
          /\ mroot = IF noroot THEN NilCfg
                      ELSE [vault |-> [address |-> "https://vault", auth_method |-> "oidc"],
                            environments |-> [default |-> dflt, available |-> <<"dev", "prod">>],
                            secrets |-> IF rnil THEN NilRef ELSE 1,
                            defaults |-> IF rnil THEN NilRef ELSE 2]
          /\ mws = IF wpresent THEN [secrets |-> 5, defaults |-> 6] ELSE NilCfg
    /\ menv \in EnvArgs
    /\ mcalls = <<>>
    /\ minput = InputView(heap)
    /\ mwrites = 0
    /\ IdleCache
    /\ IdleResolver
    /\ IdleToken

\* The caller calls Merge(root, workspace, env) and keeps what it returns.
DoMerge ==
    /\ Len(mcalls) < MaxMergeCalls
    /\ \E ord \in Orders : \E r \in {Merge(heap, mroot, mws, menv, ord)} :
          /\ heap' = r.heap
          /\ mcalls' = Append(mcalls,
                 IF r.err # "" THEN [err |-> r.err]
                 ELSE [err |-> "", cfg |-> r.cfg,
                       ret |-> [vault |-> r.cfg.vault, environment |-> r.cfg.environment,
                                secrets |-> r.heap[r.cfg.secrets],
                                defaults |-> r.heap[r.cfg.defaults]]])
    /\ UNCHANGED <<mroot, mws, menv, minput, mwrites, cacheVars, resolverVars, tokenVars, execVars>>

\* The caller writes into a map of a MergedConfig it got: f is "secrets" or
\* "defaults".
WriteResult(i, f, k) ==
    /\ mwrites < MaxResultWrites
    /\ i \in 1..Len(mcalls)
    /\ mcalls[i].err = ""
    /\ heap' = Put(heap, mcalls[i].cfg[f], k, "written")
    /\ mwrites' = mwrites + 1
    /\ UNCHANGED <<mroot, mws, menv, mcalls, minput, cacheVars, resolverVars, tokenVars, execVars>>

NextMerge ==
    \/ DoMerge
    \/ \E i \in 1..MaxMergeCalls : WriteResult(i, "secrets", "A")
    \/ \E i \in 1..MaxMergeCalls : WriteResult(i, "defaults", "K")

SpecMerge == InitMerge /\ [][NextMerge]_vars

-----------------------------------------------------------------------------
(* internal/resolver: Interpolate, GroupByPath *)

\* strings.ReplaceAll(path, "${env}", env)
RECURSIVE Interpolate(_, _)
Interpolate(path, env) ==
    IF path = <<>> THEN <<>>
    ELSE (IF Head(path) = "${env}" THEN env ELSE <<Head(path)>>) \o Interpolate(Tail(path), env)

\* strings.LastIndex(path, "/"): the 0-based index of the last "/", or -1
LastIndex(path) ==
    IF \E i \in 1..Len(path) : path[i] = "/"
    THEN Max({i \in 1..Len(path) : path[i] = "/"}) - 1
    ELSE -1

\* strings.Index(path, "/"): the 0-based index of the first "/", or -1
FirstIndex(path) ==
    IF \E i \in 1..Len(path) : path[i] = "/"
    THEN (CHOOSE i \in 1..Len(path) : path[i] = "/" /\ \A j \in 1..(i - 1) : path[j] # "/") - 1
    ELSE -1

\* splitPath, mutated: the split is at the first "/".
splitPathFirst(path) ==
    IF FirstIndex(path) < 0 THEN <<<<>>, <<>>>>
    ELSE <<SubSeq(path, 1, FirstIndex(path)), SubSeq(path, FirstIndex(path) + 2, Len(path))>>

\* splitPath: path[:idx], path[idx+1:]
splitPath(path) ==
    IF LastIndex(path) < 0 THEN <<<<>>, <<>>>>
    ELSE <<SubSeq(path, 1, LastIndex(path)), SubSeq(path, LastIndex(path) + 2, Len(path))>>

\* GroupByPath's skip, mutated: only an empty vault path is skipped.
SkippedNoPathOnly(sp) == sp[1] = <<>>

\* GroupByPath's skip: vaultPath == "" || key == ""
Skipped(sp) == sp[1] = <<>> \/ sp[2] = <<>>

\* The body of GroupByPath's loop, for the env vars ks in turn.
RECURSIVE GroupEach(_, _, _, _)
GroupEach(groups, secrets, env, ks) ==
    IF ks = <<>> THEN groups
    ELSE Bind(splitPath(Interpolate(secrets[Head(ks)], env)), LAMBDA sp :
             GroupEach(IF Skipped(sp) THEN groups
                       ELSE (sp[1] :> Append(IF sp[1] \in DOMAIN groups THEN groups[sp[1]] ELSE <<>>,
                                             [EnvVar |-> Head(ks), Key |-> sp[2]])) @@ groups,
                       secrets, env, Tail(ks)))

\* GroupByPath(secrets, env), the range loop visiting the env vars in `order`
GroupByPath(secrets, env, order) == GroupEach(<<>>, secrets, env, RangeKeys(secrets, order))

-----------------------------------------------------------------------------
(* internal/resolver: Resolver *)

defaultMaxConcurrency == 10

\* New(client, basePath, WithMaxConcurrency(n)): values less than 1 are ignored.
WithMaxConcurrency(n) == IF n > 0 THEN n ELSE defaultMaxConcurrency

\* r.fullPath, mutated: the base path is joined even when it is empty.
fullPathJoined(base, path) == base \o <<"/">> \o path

\* r.fullPath(path)
fullPath(base, path) == IF base = <<>> THEN path ELSE base \o <<"/">> \o path

\* The reader: ReadKV(full) fails for the paths in rin.failing and otherwise
\* returns a mapping with the keys url and k (never tok), fixed per path.
ReaderKeys == {<<"url">>, <<"k">>}
ReadKV(full) ==
    IF full \in rin.failing THEN [err |-> TRUE]
    ELSE [err |-> FALSE, data |-> [k \in ReaderKeys |-> full \o <<"=">> \o k]]

\* errgroup.Group.Go, mutated: no limit was set.
SlotFreeUnlimited == TRUE

\* errgroup.Group.Go with SetLimit(r.maxConcurrency): a slot of the limit is free
SlotFree == sem < rcall.max

\* fetchPath, mutated: results[path] = data without mu; a write that overlaps
\* another running task loses what was written before.
StoreResultRacy(res, path, data) == IF sem > 1 THEN (path :> data) ELSE (path :> data) @@ res

\* fetchPath: mu.Lock(); results[path] = data; mu.Unlock()
StoreResult(res, path, data) == (path :> data) @@ res

\* A set as a sequence, in some order.
RECURSIVE SetToSeq(_)
SetToSeq(S) == IF S = {} THEN <<>> ELSE Bind(CHOOSE x \in S : TRUE, LAMBDA x : <<x>> \o SetToSeq(S \ {x}))

\* mapResults' inner loop, mutated: the value is stored without the ok test.
RECURSIVE MapEachNoTest(_, _, _)
MapEachNoTest(resolved, data, mappings) ==
    IF mappings = <<>> THEN resolved
    ELSE MapEachNoTest((Head(mappings).EnvVar :>
                            IF Head(mappings).Key \in DOMAIN data THEN data[Head(mappings).Key] ELSE <<>>)
                          @@ resolved,
                       data, Tail(mappings))

\* mapResults' inner loop: if val, ok := data[m.Key]; ok { resolved[m.EnvVar] = val }
RECURSIVE MapEach(_, _, _)
MapEach(resolved, data, mappings) ==
    IF mappings = <<>> THEN resolved
    ELSE MapEach(IF Head(mappings).Key \in DOMAIN data
                 THEN (Head(mappings).EnvVar :> data[Head(mappings).Key]) @@ resolved
                 ELSE resolved,
                 data, Tail(mappings))

\* mapResults' outer loop over the paths ps; results[path] of a missing path
\* is a nil map.
RECURSIVE MapPaths(_, _, _, _)
MapPaths(resolved, groups, res, ps) ==
    IF ps = <<>> THEN resolved
    ELSE MapPaths(MapEach(resolved, IF Head(ps) \in DOMAIN res THEN res[Head(ps)] ELSE <<>>,
                          groups[Head(ps)]),
                  groups, res, Tail(ps))

mapResults(groups, res) == MapPaths(<<>>, groups, res, SetToSeq(DOMAIN groups))

\* Resolve's return, mutated: the error of fetchAll is dropped.
ResolveOutcomeIgnoringError(groups, res, err) == [ok |-> TRUE, result |-> mapResults(groups, res)]

\* Resolve's return after fetchAll: (nil, error) or (mapResults(...), nil)
ResolveOutcome(groups, res, err) ==
    IF err # <<>> THEN [ok |-> FALSE, err |-> err]
    ELSE [ok |-> TRUE, result |-> mapResults(groups, res)]

\* Path templates of vx.toml's [secrets], as token sequences.
TUrl == <<"${env}", "/", "db", "/", "url">>
TTok == <<"${env}", "/", "db", "/", "tok">>
TApi == <<"${env}", "/", "api", "/", "url">>
TShared == <<"shared", "/", "k">>
TPlain == <<"plain">>
TNoKey == <<"x", "/">>
TEnvKey == <<"${env}", "/", "k">>

ResolverSecrets ==
    { ("A" :> TUrl) @@ ("B" :> TTok) @@ ("C" :> TShared),
      ("A" :> TUrl) @@ ("B" :> TShared) @@ ("C" :> TApi),
      ("A" :> TEnvKey) @@ ("B" :> TNoKey) @@ ("C" :> TUrl),
      ("A" :> TPlain),
      <<>> }
ResolverEnvs == {<<"dev">>, <<>>}
BasePaths == {<<>>, <<"secret">>}
ConcArgs == {0, 1, 2}

\* The vault paths Resolve will fetch for the inputs.
PathsOf(secrets, env) == DOMAIN GroupByPath(secrets, env, SecretKeys)

Reading == {p \in DOMAIN tpc : tpc[p] = "reading"}

\* The caller builds New(reader, basePath, WithMaxConcurrency(n)[, WithCache(c)])
\* and calls Resolve(secrets, env): no secrets return an empty mapping at
\* once; otherwise the templates are grouped and fetchAll starts.
ResolveCall(n) ==
    /\ rpc = "idle" /\ Len(rhist) < MaxResolves
    /\ IF DOMAIN rin.secrets = {}
       THEN /\ rhist' = Append(rhist, [n |-> n, failed |-> {}, fetched |-> <<>>,
                                       out |-> [ok |-> TRUE, result |-> <<>>],
                                       paths |-> {}, hits |-> {}, reads |-> <<>>,
                                       cached |-> <<>>])
            /\ UNCHANGED <<rcall, rpc, tpc>>
       ELSE /\ \E ord \in Orders : \E groups \in {GroupByPath(rin.secrets, rin.env, ord.sk)} :
                 /\ rcall' = [n |-> n, max |-> WithMaxConcurrency(n), groups |-> groups,
                              pending |-> DOMAIN groups, failed |-> {}, hits |-> {},
                              reads |-> <<>>, cached |-> <<>>]
                 /\ tpc' = [p \in DOMAIN groups |-> "none"]
                 /\ rpc' = IF DOMAIN groups = {} THEN "wait" ELSE "dispatch"
            /\ UNCHANGED rhist
    /\ UNCHANGED <<heap, cacheVars, mergeVars, tokenVars, execVars, rin, tdata, results, sem, gerr>>

\* fetchAll's loop reaches path and g.Go(r.fetchPath(path, ...)) returns: a
\* slot of the limit was free and the task now holds it.
Dispatch(path) ==
    /\ rpc = "dispatch"
    /\ path \in rcall.pending
    /\ SlotFree
    /\ sem' = sem + 1
    /\ tpc' = [tpc EXCEPT ![path] = "spawned"]
    /\ rcall' = [rcall EXCEPT !.pending = @ \ {path}]
    /\ rpc' = IF rcall.pending = {path} THEN "wait" ELSE "dispatch"
    /\ UNCHANGED <<heap, cacheVars, mergeVars, tokenVars, execVars, rin, tdata, results, gerr, rhist>>

\* The task runs readWithCache up to the reader: a cache hit is its data,
\* otherwise it calls ReadKV.
TaskStart(path) ==
    /\ tpc[path] = "spawned"
    /\ \E o \in (IF rin.cache THEN GetOutcomes("task", fullPath(rin.base, path))
                 ELSE {[ok |-> FALSE, heap |-> heap]}) :
          /\ tpc' = [tpc EXCEPT ![path] = IF o.ok THEN "have" ELSE "reading"]
          /\ tdata' = IF o.ok THEN (path :> o.heap[o.ref]) @@ tdata ELSE tdata
          /\ rcall' = IF o.ok THEN [rcall EXCEPT !.hits = @ \cup {path}] ELSE rcall
    /\ UNCHANGED <<heap, cacheVars, mergeVars, tokenVars, execVars, rin, rpc, results, sem, gerr, rhist>>

\* history: the reader was called once more with full
Called(reads, full) == (full :> (IF full \in DOMAIN reads THEN reads[full] + 1 ELSE 1)) @@ reads

\* ReadKV returns. On an error fetchPath returns it: the group keeps the first
\* error and the slot is released. Otherwise the data is cached (if there is a
\* cache: c.Set stores a copy of the reader's map, which itself is the task's
\* and never enters the cache's heap) and is the task's data.
TaskRead(path) ==
    /\ tpc[path] = "reading"
    /\ \E r \in {ReadKV(fullPath(rin.base, path))} :
          IF r.err
          THEN /\ gerr' = IF gerr = <<>> THEN path ELSE gerr
               /\ sem' = sem - 1
               /\ tpc' = [tpc EXCEPT ![path] = "done"]
               /\ rcall' = [rcall EXCEPT !.failed = @ \cup {path},
                                          !.reads = Called(@, fullPath(rin.base, path))]
               /\ UNCHANGED <<heap, entries, tdata>>
          ELSE /\ tdata' = (path :> r.data) @@ tdata
               /\ IF rin.cache
                  THEN \E c \in {copyMap((NilRef :> r.data) @@ heap, NilRef)} :
                          /\ heap' = [x \in DOMAIN c.heap \ {NilRef} |-> c.heap[x]]
                          /\ entries' = (fullPath(rin.base, path) :>
                                            [data |-> c.ref, expiresAt |-> now + ttl]) @@ entries
                  ELSE UNCHANGED <<heap, entries>>
               /\ tpc' = [tpc EXCEPT ![path] = "have"]
               /\ rcall' = [rcall EXCEPT !.reads = Called(@, fullPath(rin.base, path)),
                                          !.cached = IF rin.cache
                                                     THEN (fullPath(rin.base, path) :> now + ttl) @@ @
                                                     ELSE @]
               /\ UNCHANGED <<sem, gerr>>
    /\ UNCHANGED <<held, now, ttl, rw, gpc, gop, opsLeft, hist, seen, mergeVars, tokenVars, execVars, rin, rpc,
                   results, rhist>>

\* fetchPath's mu.Lock(), mutated: the lock is taken whoever holds it.
MuFreeAlways == TRUE

\* fetchPath's mu.Lock(): no task holds mu
MuFree == \A p \in DOMAIN tpc : tpc[p] # "storing"

\* The task takes mu.
TaskLock(path) ==
    /\ tpc[path] = "have"
    /\ MuFree
    /\ tpc' = [tpc EXCEPT ![path] = "storing"]
    /\ UNCHANGED <<heap, cacheVars, mergeVars, tokenVars, execVars, rin, rcall, rpc, tdata, results,
                   sem, gerr, rhist>>

\* g.Wait(), mutated: it returns though tasks are running.
WaitReturnsEarly == TRUE

\* g.Wait() returns once every task has returned.
WaitReturns == \A p \in DOMAIN tpc : tpc[p] = "done"

\* The task stores its data in results, releases mu and returns nil: the slot
\* is released.
TaskFinish(path) ==
    /\ tpc[path] = "storing"
    /\ results' = StoreResult(results, path, tdata[path])
    /\ tpc' = [tpc EXCEPT ![path] = "done"]
    /\ sem' = sem - 1
    /\ UNCHANGED <<heap, cacheVars, mergeVars, tokenVars, execVars, rin, rcall, rpc, tdata, gerr, rhist>>

\* The position of x in the sequence s.
IndexOf(s, x) == CHOOSE i \in 1..Len(s) : s[i] = x

\* Garbage collection: the maps of the heap that the cache's entries (in the
\* order ps) refer to. Addresses carry no meaning, so the live maps are
\* numbered afresh.
LiveHeap(ps) == [i \in 1..Len(ps) |-> heap[entries[ps[i]].data]]
LiveEntries(ps) == [p \in DOMAIN entries |-> [entries[p] EXCEPT !.data = IndexOf(ps, p)]]

\* g.Wait() returns once every task has, and Resolve returns; what the call
\* allocated and no longer refers to is garbage.
ResolveReturn ==
    /\ rpc = "wait"
    /\ WaitReturns
    /\ rhist' = Append(rhist, [n |-> rcall.n, failed |-> rcall.failed, fetched |-> results,
                               out |-> ResolveOutcome(rcall.groups, results, gerr),
                               paths |-> DOMAIN rcall.groups, hits |-> rcall.hits,
                               reads |-> rcall.reads, cached |-> rcall.cached])
    /\ rcall' = NilCfg /\ rpc' = "idle"
    /\ tpc' = <<>> /\ tdata' = <<>> /\ results' = <<>> /\ gerr' = <<>>
    /\ \E ps \in {SetToSeq(DOMAIN entries)} :
          /\ heap' = LiveHeap(ps)
          /\ entries' = LiveEntries(ps)
    /\ UNCHANGED <<held, now, ttl, rw, gpc, gop, opsLeft, hist, seen, mergeVars, tokenVars, execVars, rin, sem>>

\* A resolver's inputs: the secrets, the environment, the base path, a reader
\* that fails for some of the paths, and a cache or none.
InitResolver ==
    /\ \E secrets \in ResolverSecrets, env \in ResolverEnvs, base \in BasePaths, cache \in BOOLEAN :
          \E failing \in SUBSET {fullPath(base, p) : p \in PathsOf(secrets, env)} :
             /\ rin = [secrets |-> secrets, env |-> env, base |-> base,
                       failing |-> failing, cache |-> cache]
             /\ ttl = IF cache THEN NewCacheTTL(1) ELSE 0
    /\ heap = <<>>
    /\ held = {} /\ now = 0 /\ entries = <<>>
    /\ rw = [readers |-> {}, writer |-> {}]
    /\ gpc = [g \in Clients |-> "idle"]
    /\ gop = [g \in Clients |-> NoCall]
    /\ opsLeft = 0
    /\ hist = [p \in CachePaths |-> NoSet]
    /\ seen = [g \in Clients |-> {}]
    /\ rcall = NilCfg /\ rpc = "idle"
    /\ tpc = <<>> /\ tdata = <<>> /\ results = <<>>
    /\ sem = 0 /\ gerr = <<>> /\ rhist = <<>>
    /\ IdleMerge
    /\ IdleToken

NextResolver ==
    \/ \E n \in ConcArgs : ResolveCall(n)
    \/ \E p \in DOMAIN tpc : Dispatch(p)
    \/ \E p \in DOMAIN tpc : TaskStart(p)
    \/ \E p \in DOMAIN tpc : TaskRead(p)
    \/ \E p \in DOMAIN tpc : TaskLock(p)
    \/ \E p \in DOMAIN tpc : TaskFinish(p)
    \/ ResolveReturn
    \/ rpc = "idle" /\ rin.cache /\ Tick

SpecResolver == InitResolver /\ [][NextResolver]_vars

-----------------------------------------------------------------------------
(* internal/token: the sink and PID files *)

\* A path of the file system: no file, or a file and its bytes, a sequence in
\* which " " and "\n" are whitespace and any other element is a run of
\* non-blank characters.
NoFile == [exists |-> FALSE, bytes |-> <<>>]
File(b) == [exists |-> TRUE, bytes |-> b]
Blank == {" ", "\n"}

\* strings.TrimSpace
RECURSIVE TrimLeft(_)
TrimLeft(b) == IF b # <<>> /\ Head(b) \in Blank THEN TrimLeft(Tail(b)) ELSE b
RECURSIVE TrimRight(_)
TrimRight(b) == IF b # <<>> /\ b[Len(b)] \in Blank THEN TrimRight(SubSeq(b, 1, Len(b) - 1)) ELSE b
TrimSpace(b) == TrimRight(TrimLeft(b))

\* readTokenFrom, mutated: the file's bytes are returned as they are.
readTokenFromUntrimmed(file) ==
    IF ~file.exists THEN [err |-> "read token", tok |-> <<>>]
    ELSE IF file.bytes = <<>> THEN [err |-> "read token: file is empty", tok |-> <<>>]
    ELSE [err |-> "", tok |-> file.bytes]

\* readTokenFrom(path), of the file at path
readTokenFrom(file) ==
    IF ~file.exists THEN [err |-> "read token", tok |-> <<>>]
    ELSE IF TrimSpace(file.bytes) = <<>> THEN [err |-> "read token: file is empty", tok |-> <<>>]
    ELSE [err |-> "", tok |-> TrimSpace(file.bytes)]

\* writeTokenTo(path, token): the file it leaves at path
writeTokenTo(token) == File(token \o <<"\n">>)

\* removeTokenAt(path): the file is gone; a missing file is no error
removeTokenAt(file) == [file |-> NoFile, err |-> ""]

\* The process ids of the model: the daemons' own, another live process, and
\* one that no longer exists.
DaemonPids == {1, 2}
OtherLivePids == {7}
DeadPids == {9}
Pids == DaemonPids \cup OtherLivePids \cup DeadPids

\* strconv.Itoa and strconv.Atoi
Itoa(n) == <<ToString(n)>>
Atoi(str) ==
    IF \E n \in Pids : Itoa(n) = str
    THEN [err |-> "", n |-> CHOOSE n \in Pids : Itoa(n) = str]
    ELSE [err |-> "parse pid", n |-> 0]

\* writePIDFile(path, pid): the file it leaves
writePIDFile(pid) == writeTokenTo(Itoa(pid))

\* readPIDFile(path)
readPIDFile(file) ==
    IF readTokenFrom(file).err # "" THEN [err |-> "read pid", n |-> 0]
    ELSE Atoi(readTokenFrom(file).tok)

\* isProcessAlive, mutated: every pid is taken for a live process.
isProcessAliveAlways(pid) == TRUE

\* isProcessAlive(pid): signal 0 reaches the process
isProcessAlive(pid) == pid \in DaemonPids \cup OtherLivePids

\* Daemon.IsRunning, mutated: a PID file is taken for a running daemon.
IsRunningAnyPid(file) == readPIDFile(file).err = ""

\* Daemon.IsRunning
IsRunning(file) ==
    IF readPIDFile(file).err # "" THEN FALSE ELSE isProcessAlive(readPIDFile(file).n)

\* Daemon.Status: Running and PID (LastRenewal is read under d.mu)
Status(file, last) ==
    IF readPIDFile(file).err # "" THEN [Running |-> FALSE, PID |-> 0, LastRenewal |-> 0]
    ELSE [Running |-> isProcessAlive(readPIDFile(file).n), PID |-> readPIDFile(file).n,
          LastRenewal |-> last]

-----------------------------------------------------------------------------
(* internal/token: TokenRenewer *)

\* What the HTTP client hands back for a request: the transport failed, or a
\* response with a status and (for 200) the JSON fields of its body.
NoBody == [ttl |-> 0, creation_ttl |-> 0, expire_time |-> "nil", renewable |-> FALSE,
           client_token |-> <<>>]
TransportError == [fail |-> TRUE, status |-> 0, body |-> NoBody]
Response(status, body) == [fail |-> FALSE, status |-> status, body |-> body]
LookupBody(ttl0, creation, expire, renewable) ==
    [NoBody EXCEPT !.ttl = ttl0, !.creation_ttl = creation, !.expire_time = expire,
                   !.renewable = renewable]
RenewBody(tok) == [NoBody EXCEPT !.client_token = tok]

\* lookupToken: the request fails, the status is not 200, or the body is
\* decoded into tokenLookupResponse, which has no field for creation_ttl.
lookupToken(resp) ==
    IF resp.fail THEN [err |-> "http request"]
    ELSE IF resp.status # 200 THEN [err |-> "unexpected status"]
    ELSE [err |-> "", TTL |-> resp.body.ttl, ExpireTime |-> resp.body.expire_time,
          Renewable |-> resp.body.renewable]

\* renewToken: as lookupToken, and an empty client token is an error.
renewToken(resp) ==
    IF resp.fail THEN [err |-> "http request", tok |-> <<>>]
    ELSE IF resp.status # 200 THEN [err |-> "unexpected status", tok |-> <<>>]
    ELSE IF resp.body.client_token = <<>> THEN [err |-> "empty client token in response", tok |-> <<>>]
    ELSE [err |-> "", tok |-> resp.body.client_token]

\* needsRenewal, mutated: the threshold itself is renewed.
needsRenewalAtThreshold(ttlSeconds) == ttlSeconds > 0 /\ ttlSeconds <= 1800

\* needsRenewal(ttlSeconds)
needsRenewal(ttlSeconds) == ttlSeconds > 0 /\ ttlSeconds < 1800

\* NeedsReauth, mutated: a TTL that has run out is enough, with or without an
\* expire_time.
NeedsReauthIgnoringExpireTime(file, resp) ==
    IF readTokenFrom(file).err # "" \/ readTokenFrom(file).tok = <<>> THEN TRUE
    ELSE IF lookupToken(resp).err # "" THEN TRUE
    ELSE lookupToken(resp).TTL <= 0

\* NeedsReauth, of the sink file and the answer lookup-self gives if asked
NeedsReauth(file, resp) ==
    IF readTokenFrom(file).err # "" \/ readTokenFrom(file).tok = <<>> THEN TRUE
    ELSE IF lookupToken(resp).err # "" THEN TRUE
    ELSE lookupToken(resp).TTL <= 0 /\ lookupToken(resp).ExpireTime # "nil"

\* A RenewOnce in progress or returned: where it is ("lookup": waiting for
\* lookup-self; "renew": waiting for renew-self; "done"), the token it read,
\* the requests it has sent, the answers of lookup-self and renew-self, the
\* error it returned and the file it wrote to the sink (NoFile: it wrote
\* nothing).
NoRenewOnce ==
    [pc |-> "none", tok |-> <<>>, reqs |-> <<>>, lookup |-> TransportError,
     renew |-> TransportError, err |-> "", wrote |-> NoFile]
Returned(ro, err, wrote) == [ro EXCEPT !.pc = "done", !.err = err, !.wrote = wrote]

\* RenewOnce up to the lookup-self request
RenewOnceBegin(file) ==
    IF readTokenFrom(file).err # ""
    THEN [NoRenewOnce EXCEPT !.pc = "done", !.err = "renew: read"]
    ELSE [NoRenewOnce EXCEPT
              !.pc = "lookup", !.tok = readTokenFrom(file).tok,
              !.reqs = <<[endpoint |-> "lookup-self", token |-> readTokenFrom(file).tok]>>]

\* RenewOnce from lookup-self's answer up to the renew-self request
RenewOnceLookedUp(ro, resp) ==
    IF lookupToken(resp).err # "" THEN Returned([ro EXCEPT !.lookup = resp], "renew: lookup", NoFile)
    ELSE IF ~lookupToken(resp).Renewable THEN Returned([ro EXCEPT !.lookup = resp], "", NoFile)
    ELSE IF ~needsRenewal(lookupToken(resp).TTL) THEN Returned([ro EXCEPT !.lookup = resp], "", NoFile)
    ELSE [ro EXCEPT !.pc = "renew", !.lookup = resp,
                    !.reqs = Append(@, [endpoint |-> "renew-self", token |-> ro.tok])]

\* RenewOnce from renew-self's answer, mutated: the client token is written
\* to the sink whatever renewToken returned.
RenewOnceRenewedAlwaysWrites(ro, resp) ==
    Returned([ro EXCEPT !.renew = resp], IF renewToken(resp).err # "" THEN "renew: renew-self" ELSE "",
             writeTokenTo(renewToken(resp).tok))

\* RenewOnce from renew-self's answer to its return
RenewOnceRenewed(ro, resp) ==
    IF renewToken(resp).err # ""
    THEN Returned([ro EXCEPT !.renew = resp], "renew: renew-self", NoFile)
    ELSE Returned([ro EXCEPT !.renew = resp], "", writeTokenTo(renewToken(resp).tok))

\* The sink after a RenewOnce that is done
SinkAfter(ro) == IF ro.wrote.exists THEN ro.wrote ELSE sink

-----------------------------------------------------------------------------
(* internal/token: callers of the TokenRenewer and of a Daemon's queries *)

nonTokenVars == <<heap, cacheVars, mergeVars, resolverVars, execVars>>
daemonVars == <<procs, stopc, dpc, starts, cancelled, loops, lastRenewal, dlog>>

\* What Vault may answer to lookup-self and to renew-self
TTLs == {-1, 0, 300, 1000, 1799, 1800, 2000, 7200}
CreationTTLs == {0, 1000, 7200}
LookupResponses ==
    {TransportError, Response(403, NoBody)}
        \cup {Response(200, LookupBody(t, c, e, r)) :
                t \in TTLs, c \in CreationTTLs, e \in {"nil", "set"}, r \in BOOLEAN}
RenewResponses ==
    {TransportError, Response(500, NoBody), Response(200, RenewBody(<<>>)),
     Response(200, RenewBody(<<"s.renewed">>))}

\* The answers of the Vault server of a run: of any kind, or those of a
\* healthy server asked about a renewable token late in its lease
VaultLookups(v) ==
    IF v = "any" THEN LookupResponses
    ELSE {TransportError, Response(200, LookupBody(1000, 7200, "set", TRUE))}
VaultRenews(v) ==
    IF v = "any" THEN RenewResponses
    ELSE {Response(200, RenewBody(<<"s.renewed">>))}

\* The sink and the PID file a caller may find
SinkFiles ==
    {NoFile, File(<<>>), File(<<" ", "\n">>), File(<<"s.old", "\n">>), File(<<" ", "s.old">>)}
PidFiles ==
    {NoFile, File(<<>>), File(<<"garbage", "\n">>)} \cup {writePIDFile(n) : n \in Pids}

\* The caller makes one call at a time; calls is its RenewOnce, in progress
\* or returned, and rlog its last other call, with what it was asked of and
\* its answer. Each is reset when the caller makes a call of the other kind.
NoQuery ==
    [op |-> "none", file |-> NoFile, resp |-> TransportError, result |-> FALSE,
     status |-> Status(NoFile, 0)]

\* r.RenewOnce(ctx) is called: the sink is read and lookup-self is sent
RenewOnceCall ==
    /\ calls.pc \in {"none", "done"}
    /\ calls' = RenewOnceBegin(sink)
    /\ rlog' = NoQuery
    /\ UNCHANGED <<sink, pidfile, vault, daemonVars, nonTokenVars>>

\* lookup-self is answered
RenewOnceLookup ==
    /\ calls.pc = "lookup"
    /\ \E resp \in VaultLookups(vault) : calls' = RenewOnceLookedUp(calls, resp)
    /\ UNCHANGED <<sink, pidfile, vault, rlog, daemonVars, nonTokenVars>>

\* renew-self is answered, the sink is written and RenewOnce returns
RenewOnceRenew ==
    /\ calls.pc = "renew"
    /\ \E resp \in VaultRenews(vault) : calls' = RenewOnceRenewed(calls, resp)
    /\ sink' = SinkAfter(calls')
    /\ UNCHANGED <<pidfile, vault, rlog, daemonVars, nonTokenVars>>

\* An authentication flow, of this or of another process, succeeds:
\* WriteToken(token)
Login ==
    /\ sink' = writeTokenTo(<<"s.login">>)
    /\ rlog' = [NoQuery EXCEPT !.op = "Login"]
    /\ UNCHANGED <<pidfile, vault, calls, daemonVars, nonTokenVars>>

\* r.NeedsReauth(ctx) is called and returns
CallNeedsReauth ==
    /\ calls.pc \in {"none", "done"}
    /\ calls' = NoRenewOnce
    /\ \E resp \in VaultLookups(vault) :
          rlog' = [NoQuery EXCEPT !.op = "NeedsReauth", !.file = sink, !.resp = resp,
                                  !.result = NeedsReauth(sink, resp)]
    /\ UNCHANGED <<sink, pidfile, vault, daemonVars, nonTokenVars>>

\* d.IsRunning() is called and returns
CallIsRunning ==
    /\ calls.pc \in {"none", "done"}
    /\ calls' = NoRenewOnce
    /\ rlog' = [NoQuery EXCEPT !.op = "IsRunning", !.file = pidfile, !.result = IsRunning(pidfile)]
    /\ UNCHANGED <<sink, pidfile, vault, daemonVars, nonTokenVars>>

\* d.Status() is called and returns
CallStatus ==
    /\ calls.pc \in {"none", "done"}
    /\ calls' = NoRenewOnce
    /\ rlog' = [NoQuery EXCEPT !.op = "Status", !.file = pidfile, !.status = Status(pidfile, 0)]
    /\ UNCHANGED <<sink, pidfile, vault, daemonVars, nonTokenVars>>

InitRenewer ==
    /\ heap = <<>> /\ IdleCache /\ IdleMerge /\ IdleResolver /\ IdleDaemon /\ IdleExec
    /\ sink \in SinkFiles
    /\ pidfile \in PidFiles
    /\ vault = "any"
    /\ calls = NoRenewOnce
    /\ rlog = NoQuery

NextRenewer ==
    \/ RenewOnceCall
    \/ RenewOnceLookup
    \/ RenewOnceRenew
    \/ Login
    \/ CallNeedsReauth
    \/ CallIsRunning
    \/ CallStatus

SpecRenewer == InitRenewer /\ [][NextRenewer]_vars

-----------------------------------------------------------------------------
(* internal/token: Daemon *)

cacheVarsButNow == <<held, ttl, entries, rw, gpc, gop, opsLeft, hist, seen>>
renewerVars == <<vault, calls, rlog>>
otherVars == <<heap, cacheVarsButNow, mergeVars, resolverVars, renewerVars, execVars>>

\* What is remembered of a process's calls of Start and Stop: the result of
\* the last call, the context and the PID file of the last Start, the context
\* of the last Start that succeeded (0: none), and whether the last Start was
\* called after a successful one with no Stop or cancellation in between
\* (follows) or with none at all so far (undisturbed); renewed is what the
\* last RenewOnce of a supervisor returned ("ok", "failed"); stopped flips at every
\* call of Stop; late holds the contexts of the Starts called after a Stop
\* had closed d.stop.
NoDaemonLog ==
    [last |-> "none", ctx |-> 0, file |-> NoFile, okctx |-> 0, quiet |-> FALSE,
     follows |-> FALSE, undisturbed |-> FALSE, stopped |-> FALSE, renewed |-> "none",
     late |-> {}]

\* A supervisor goroutine: where it is and its RenewOnce, if in one
Loop(pc, ro) == [pc |-> pc, ro |-> ro]

\* The supervisor loops that have not returned, and those inside RenewOnce
ActiveLoops(p) == {k \in DOMAIN loops[p] : loops[p][k].pc # "exited"}
Renewing(p) == {k \in DOMAIN loops[p] : loops[p][k].pc = "renewing"}

\* d.Start(ctx), up to the answer of d.IsRunning()
StartCheck(p) ==
    /\ dpc[p] = "idle"
    /\ starts[p] < MaxStarts
    /\ starts' = [starts EXCEPT ![p] = @ + 1]
    /\ dpc' = [dpc EXCEPT ![p] = IF IsRunning(pidfile) THEN "idle" ELSE "start"]
    /\ dlog' = [dlog EXCEPT ![p] =
                  [@ EXCEPT !.last = IF IsRunning(pidfile) THEN "start: already running"
                                     ELSE "start: pending",
                            !.ctx = starts[p] + 1,
                            !.file = pidfile,
                            !.quiet = FALSE,
                            !.follows = dlog[p].quiet,
                            !.undisturbed = /\ dlog[p].okctx # 0
                                            /\ ~stopc[p]
                                            /\ dlog[p].okctx \notin cancelled[p],
                            !.late = IF stopc[p] THEN @ \cup {starts[p] + 1} ELSE @]]
    /\ UNCHANGED <<sink, pidfile, procs, stopc, cancelled, loops, lastRenewal, now, otherVars>>

\* d.Start(ctx), from writePIDFile to its return: the supervisor is spawned
StartWrite(p) ==
    /\ dpc[p] = "start"
    /\ pidfile' = writePIDFile(p)
    /\ loops' = [loops EXCEPT ![p] = @ @@ (dlog[p].ctx :> Loop("entry", NoRenewOnce))]
    /\ dpc' = [dpc EXCEPT ![p] = "idle"]
    /\ dlog' = [dlog EXCEPT ![p] = [@ EXCEPT !.last = "start: ok", !.okctx = dlog[p].ctx,
                                             !.quiet = TRUE]]
    /\ UNCHANGED <<sink, procs, stopc, starts, cancelled, lastRenewal, now, otherVars>>

\* removePIDFile, mutated: the file is left where it is.
removePIDFileKeeps(file) == file

\* removePIDFile(path): what is at path afterwards
removePIDFile(file) == NoFile

\* The select of d.Stop(), mutated: the default case is taken although
\* d.stop is closed, and the close is skipped.
StopTakesDefaultAlways(closed) == TRUE

\* The select of d.Stop() takes its default case: d.stop is not closed
StopTakesDefault(closed) == ~closed

\* d.Stop()
Stop(p) ==
    /\ dpc[p] = "idle"
    /\ IF ~StopTakesDefault(stopc[p])
       THEN /\ dlog' = [dlog EXCEPT ![p] = [@ EXCEPT !.last = "stop: not running", !.quiet = FALSE,
                                                    !.stopped = ~@]]
            /\ UNCHANGED <<stopc, pidfile>>
       ELSE /\ stopc' = [stopc EXCEPT ![p] = TRUE]
            /\ pidfile' = removePIDFile(pidfile)
            /\ dlog' = [dlog EXCEPT ![p] = [@ EXCEPT !.last = "stop: ok", !.quiet = FALSE,
                                                    !.stopped = ~@]]
    /\ UNCHANGED <<sink, procs, dpc, starts, cancelled, loops, lastRenewal, now, otherVars>>

\* The caller cancels the context of a Start, or the one it will pass to its
\* next Start.
Cancel(p, k) ==
    /\ k \in 1..MaxStarts
    /\ k <= starts[p] + 1
    /\ k \notin cancelled[p]
    /\ cancelled' = [cancelled EXCEPT ![p] = @ \cup {k}]
    /\ dlog' = [dlog EXCEPT ![p] = [@ EXCEPT !.quiet = FALSE]]
    /\ UNCHANGED <<sink, pidfile, procs, stopc, dpc, starts, loops, lastRenewal, now, otherVars>>

\* d.tryRenew(ctx), mutated: the time is recorded whatever RenewOnce returned.
TryRenewReturnsStamps(p, k, ro) ==
    /\ loops' = [loops EXCEPT ![p][k] = IF ro.pc = "done" THEN Loop("select", NoRenewOnce)
                                        ELSE Loop("renewing", ro)]
    /\ lastRenewal' = IF ro.pc = "done" THEN [lastRenewal EXCEPT ![p] = now] ELSE lastRenewal
    /\ dlog' = IF ro.pc = "done"
               THEN [dlog EXCEPT ![p].renewed = IF ro.err = "" THEN "ok" ELSE "failed"]
               ELSE dlog

\* d.tryRenew(ctx) from the return of RenewOnce, if ro has returned
TryRenewReturns(p, k, ro) ==
    /\ loops' = [loops EXCEPT ![p][k] = IF ro.pc = "done" THEN Loop("select", NoRenewOnce)
                                        ELSE Loop("renewing", ro)]
    /\ lastRenewal' = IF ro.pc = "done" /\ ro.err = "" THEN [lastRenewal EXCEPT ![p] = now]
                      ELSE lastRenewal
    /\ dlog' = IF ro.pc = "done"
               THEN [dlog EXCEPT ![p].renewed = IF ro.err = "" THEN "ok" ELSE "failed"]
               ELSE dlog

\* d.tryRenew(ctx) is entered: RenewOnce reads the sink and sends lookup-self,
\* or returns at once
TryRenew(p, k) == TryRenewReturns(p, k, RenewOnceBegin(sink))

\* d.loop(ctx) is scheduled and makes its first renewal attempt
LoopEntry(p, k) ==
    /\ k \in DOMAIN loops[p]
    /\ loops[p][k].pc = "entry"
    /\ TryRenew(p, k)
    /\ UNCHANGED <<sink, pidfile, procs, stopc, dpc, starts, cancelled, now, otherVars>>

\* d.loop(ctx): select takes <-ticker.C
LoopTick(p, k) ==
    /\ k \in DOMAIN loops[p]
    /\ loops[p][k].pc = "select"
    /\ TryRenew(p, k)
    /\ UNCHANGED <<sink, pidfile, procs, stopc, dpc, starts, cancelled, now, otherVars>>

\* What the HTTP client returns under context k: an error once it is cancelled
Answers(p, k, responses) == IF k \in cancelled[p] THEN {TransportError} ELSE responses

\* lookup-self is answered to the RenewOnce of a loop
LoopLookup(p, k) ==
    /\ k \in DOMAIN loops[p]
    /\ loops[p][k].pc = "renewing"
    /\ loops[p][k].ro.pc = "lookup"
    /\ \E resp \in Answers(p, k, VaultLookups(vault)) :
          TryRenewReturns(p, k, RenewOnceLookedUp(loops[p][k].ro, resp))
    /\ UNCHANGED <<sink, pidfile, procs, stopc, dpc, starts, cancelled, now, otherVars>>

\* renew-self is answered to the RenewOnce of a loop
LoopRenew(p, k) ==
    /\ k \in DOMAIN loops[p]
    /\ loops[p][k].pc = "renewing"
    /\ loops[p][k].ro.pc = "renew"
    /\ \E resp \in Answers(p, k, VaultRenews(vault)) :
          /\ TryRenewReturns(p, k, RenewOnceRenewed(loops[p][k].ro, resp))
          /\ sink' = SinkAfter(RenewOnceRenewed(loops[p][k].ro, resp))
    /\ UNCHANGED <<pidfile, procs, stopc, dpc, starts, cancelled, now, otherVars>>

\* The select of d.loop, mutated: <-ctx.Done() is not one of its cases.
ExitReadyStopOnly(p, k) == stopc[p]

\* The select of d.loop(ctx) can take <-d.stop or <-ctx.Done()
ExitReady(p, k) == stopc[p] \/ k \in cancelled[p]

\* d.loop(ctx): select takes <-d.stop or <-ctx.Done(); the deferred
\* removePIDFile runs
LoopExit(p, k) ==
    /\ k \in DOMAIN loops[p]
    /\ loops[p][k].pc = "select"
    /\ ExitReady(p, k)
    /\ loops' = [loops EXCEPT ![p][k] = Loop("exited", NoRenewOnce)]
    /\ pidfile' = removePIDFile(pidfile)
    /\ UNCHANGED <<sink, procs, stopc, dpc, starts, cancelled, lastRenewal, dlog, now, otherVars>>

\* The clock advances.
DaemonTick ==
    /\ now < MaxTime
    /\ now' = now + 1
    /\ UNCHANGED <<tokenVars, heap, cacheVarsButNow, mergeVars, resolverVars, execVars>>

\* The PID file a process may find when it starts
StartPidFiles == {NoFile, File(<<"garbage", "\n">>)} \cup {writePIDFile(n) : n \in OtherLivePids \cup DeadPids}

NewDaemons(ps) ==
    /\ procs = ps
    /\ stopc = [p \in ps |-> FALSE]
    /\ dpc = [p \in ps |-> "idle"]
    /\ starts = [p \in ps |-> 0]
    /\ cancelled = [p \in ps |-> {}]
    /\ loops = [p \in ps |-> <<>>]
    /\ lastRenewal = [p \in ps |-> 0]
    /\ dlog = [p \in ps |-> NoDaemonLog]

\* One process with one Daemon
InitDaemon ==
    /\ heap = <<>> /\ IdleCache /\ IdleMerge /\ IdleResolver /\ IdleExec
    /\ sink \in {NoFile, File(<<"s.old", "\n">>)}
    /\ pidfile \in StartPidFiles
    /\ vault = "healthy"
    /\ calls = NoRenewOnce
    /\ rlog = NoQuery
    /\ NewDaemons({1})

\* The calls of the Daemon's owner and the steps of its supervisors
DaemonSteps ==
    \/ \E p \in procs : StartCheck(p)
    \/ \E p \in procs : StartWrite(p)
    \/ \E p \in procs : Stop(p)
    \/ \E p \in procs, k \in 1..MaxStarts : Cancel(p, k)
    \/ \E p \in procs, k \in 1..MaxStarts : LoopEntry(p, k)
    \/ \E p \in procs, k \in 1..MaxStarts : LoopTick(p, k)
    \/ \E p \in procs, k \in 1..MaxStarts : LoopLookup(p, k)
    \/ \E p \in procs, k \in 1..MaxStarts : LoopRenew(p, k)
    \/ \E p \in procs, k \in 1..MaxStarts : LoopExit(p, k)

NextDaemon ==
    \/ DaemonSteps
    \/ DaemonTick

SpecDaemon == InitDaemon /\ [][NextDaemon]_vars

\* The goroutine of a supervisor is scheduled, each of its HTTP requests is
\* answered, and a select that is offered <-d.stop or <-ctx.Done() again and
\* again takes it: select chooses among its ready cases at random.
LoopFairness(p, k) ==
    /\ WF_vars(LoopEntry(p, k))
    /\ WF_vars(LoopLookup(p, k))
    /\ WF_vars(LoopRenew(p, k))
    /\ SF_vars(LoopExit(p, k))

\* The clock, which only stamps lastRenewal, stands still here.
SpecDaemonFair ==
    InitDaemon /\ [][DaemonSteps]_vars /\ \A k \in 1..MaxStarts : LoopFairness(1, k)

\* Two processes run `vx daemon start` on one PID file that does not exist
\* yet, as StartDaemonProcess may spawn them: each has a Daemon of its own.
InitRace ==
    /\ heap = <<>> /\ IdleCache /\ IdleMerge /\ IdleResolver /\ IdleExec
    /\ sink \in {NoFile, File(<<"s.old", "\n">>)}
    /\ pidfile = NoFile
    /\ vault = "healthy"
    /\ calls = NoRenewOnce
    /\ rlog = NoQuery
    /\ NewDaemons(DaemonPids)

NextRace ==
    \/ \E p \in procs : StartCheck(p)
    \/ \E p \in procs : StartWrite(p)
    \/ \E p \in procs, k \in 1..MaxStarts : LoopEntry(p, k)
    \/ \E p \in procs, k \in 1..MaxStarts : LoopTick(p, k)
    \/ \E p \in procs, k \in 1..MaxStarts : LoopLookup(p, k)
    \/ \E p \in procs, k \in 1..MaxStarts : LoopRenew(p, k)

SpecRace == InitRace /\ [][NextRace]_vars

-----------------------------------------------------------------------------
(* internal/token: a caller of the sink's WriteToken, ReadToken, RemoveToken *)

SinkTokens ==
    {<<>>, <<" ">>, <<"\n", " ">>, <<"s.a">>, <<"s.b">>, <<" ", "s.a">>, <<"s.a", "\n">>,
     <<" ", "s.a", " ">>, <<"s.a", " ", "s.b">>}

\* rlog here: the caller's last call, what it returned, and the last call
\* before it that wrote or removed the file (none: the file is as it was found)
NoChange == [op |-> "none", token |-> <<>>]
NoSinkCall == [op |-> "none", token |-> <<>>, err |-> "", tok |-> <<>>, last |-> NoChange]

\* The last call that changed the file, this one included
LastChange == IF rlog.op \in {"write", "remove"} THEN [op |-> rlog.op, token |-> rlog.token] ELSE rlog.last

WriteToken(token) ==
    /\ sink' = writeTokenTo(token)
    /\ rlog' = [op |-> "write", token |-> token, err |-> "", tok |-> <<>>, last |-> LastChange]
    /\ UNCHANGED <<pidfile, vault, calls, daemonVars, nonTokenVars>>

ReadToken ==
    /\ rlog.op # "read"
    /\ LET r == readTokenFrom(sink)
       IN rlog' = [op |-> "read", token |-> <<>>, err |-> r.err, tok |-> r.tok, last |-> LastChange]
    /\ UNCHANGED <<sink, pidfile, vault, calls, daemonVars, nonTokenVars>>

RemoveToken ==
    /\ LET r == removeTokenAt(sink)
       IN /\ sink' = r.file
          /\ rlog' = [op |-> "remove", token |-> <<>>, err |-> r.err, tok |-> <<>>,
                      last |-> LastChange]
    /\ UNCHANGED <<pidfile, vault, calls, daemonVars, nonTokenVars>>

InitSink ==
    /\ heap = <<>> /\ IdleCache /\ IdleMerge /\ IdleResolver /\ IdleDaemon /\ IdleExec
    /\ sink \in SinkFiles
    /\ pidfile = NilCfg
    /\ vault = NilCfg
    /\ calls = NilCfg
    /\ rlog = NoSinkCall

NextSink ==
    \/ \E token \in SinkTokens : WriteToken(token)
    \/ ReadToken
    \/ RemoveToken

SpecSink == InitSink /\ [][NextSink]_vars

-----------------------------------------------------------------------------
(* internal/exec and cmd's runExec: running the child *)
(* An environment entry "KEY=VALUE" is a sequence of tokens, "=" being one   *)
(* of them; a name and a value are sequences of the other tokens.            *)

MaxSignals == 2

\* ForwardSignals: make(chan os.Signal, 1)
sigChanCap == 1

Eq == "="

Entry(k, v) == k \o <<Eq>> \o v

\* splitEnvEntry: the split is at the first "="; without one the entry is the key
splitEnvEntry(entry) ==
    IF \E i \in 1..Len(entry) : entry[i] = Eq
    THEN Bind(CHOOSE i \in 1..Len(entry) : entry[i] = Eq /\ \A j \in 1..(i - 1) : entry[j] # Eq,
              LAMBDA i : <<SubSeq(entry, 1, i - 1), SubSeq(entry, i + 1, Len(entry))>>)
    ELSE <<entry, <<>>>>

\* parseEnvSlice's loop: later entries overwrite, an empty key is skipped
RECURSIVE ParseEach(_, _, _)
ParseEach(h, r, envSlice) ==
    IF envSlice = <<>> THEN h
    ELSE Bind(splitEnvEntry(Head(envSlice)), LAMBDA kv :
              ParseEach(IF kv[1] # <<>> THEN Put(h, r, kv[1], kv[2]) ELSE h, r, Tail(envSlice)))

parseEnvSlice(h, envSlice) ==
    Bind(MakeMap(h), LAMBDA result :
         [heap |-> ParseEach(result.heap, result.ref, envSlice), ref |-> result.ref])

\* formatEnvMap: one "k=v" per pair, in the map's order
formatEnvMap(envMap) ==
    Bind(SetToSeq(DOMAIN envMap), LAMBDA ks :
         [i \in 1..Len(ks) |-> Entry(ks[i], envMap[ks[i]])])

\* mergeEnv, mutated: the parent's entries are laid over the additional ones.
mergeEnvParentWins(h, current, additional) ==
    Bind(MakeMap(h), LAMBDA envMap :
         Bind(ParseEach(PutEach(envMap.heap, envMap.ref, h[additional], SetToSeq(DOMAIN h[additional])),
                        envMap.ref, current), LAMBDA h2 :
              [heap |-> h2, out |-> formatEnvMap(h2[envMap.ref])]))

\* mergeEnv: the parent's entries, the additional ones laid over them
mergeEnv(h, current, additional) ==
    Bind(parseEnvSlice(h, current), LAMBDA envMap :
         Bind(PutEach(envMap.heap, envMap.ref, h[additional], SetToSeq(DOMAIN h[additional])),
              LAMBDA h2 : [heap |-> h2, out |-> formatEnvMap(h2[envMap.ref])]))

\* runExec's envVars: the defaults, the secrets laid over them
envVarsOf(h, defaults, secrets) ==
    Bind(MakeMap(h), LAMBDA envVars :
         [heap |-> PutEach(PutEach(envVars.heap, envVars.ref, defaults, SetToSeq(DOMAIN defaults)),
                           envVars.ref, secrets, SetToSeq(DOMAIN secrets)),
          ref |-> envVars.ref])

\* Errors: nil, an *exec.ExitError with its exit code, or another error
\* ("empty": Run's own; "start": cmd.Start's, wrapped; "wait": any other of cmd.Wait)
NoErr == [kind |-> "nil", code |-> 0]
ExitError(c) == [kind |-> "exit", code |-> c]
OtherError(kind) == [kind |-> kind, code |-> 0]

\* ExitCode, mutated: every error is 1.
ExitCodeFlat(err) == IF err.kind = "nil" THEN 0 ELSE 1

\* ExitCode
ExitCode(err) ==
    IF err.kind = "nil" THEN 0
    ELSE IF err.kind = "exit" THEN err.code
    ELSE 1

\* What cmd.Wait may return: exit status 0, a non-zero status, death by a
\* signal (ExitCode() is -1 then), or an error that is no ExitError
WaitErrors == {NoErr, ExitError(1), ExitError(3), ExitError(-1), OtherError("wait")}

Signals == {"INT", "TERM", "HUP"}

NoChild == [state |-> "none", env |-> <<>>, got |-> <<>>, err |-> NoErr]
NoOut == [returned |-> FALSE, err |-> NoErr, code |-> 0]

KA == <<"A">>
KB == <<"B">>
KC == <<"C">>
KD == <<"D">>

ExecEnvirons ==
    {<<>>, <<Entry(KA, <<"p">>), Entry(KB, <<"p", Eq, "q">>), Entry(KC, <<>>)>>}
ExecDefaults == {<<>>, KA :> <<"d">>, (KB :> <<"d">>) @@ (KC :> <<"d", Eq>>)}
ExecSecrets == {<<>>, KC :> <<"s">>, (KA :> <<"s">>) @@ (KB :> <<>>)}
ExecCommands == {<<>>, <<"cmd">>, <<"missing">>}

\* os/exec: cmd.Start fails when the program cannot be started
StartFails(command) == command[1] = "missing"

\* runExec, lines 64-70: envVars is built
ExecOverlay ==
    /\ xrun.pc = "overlay"
    /\ LET e == envVarsOf(heap, xin.defaults, xin.secrets)
       IN /\ heap' = e.heap
          /\ xrun' = [xrun EXCEPT !.pc = "run", !.env = e.ref]
    /\ UNCHANGED <<xin, xchild, xsig, xsent, xout, xauth,
                   cacheVars, mergeVars, resolverVars, tokenVars>>

\* runExec's return from Run: os.Exit(ExitCode(err)) on an error
Returns(err) == [returned |-> TRUE, err |-> err, code |-> ExitCode(err)]

\* Run up to cmd.Wait: the argv test, mergeEnv, cmd.Start, ForwardSignals
RunStart ==
    /\ xrun.pc = "run"
    /\ IF xin.command = <<>>
       THEN /\ xout' = Returns(OtherError("empty"))
            /\ xrun' = [xrun EXCEPT !.pc = "returned", !.given = heap[xrun.env]]
            /\ UNCHANGED <<heap, xchild>>
       ELSE LET merged == mergeEnv(heap, xrun.environ, xrun.env)
            IN /\ heap' = merged.heap
               /\ IF StartFails(xin.command)
                  THEN /\ xout' = Returns(OtherError("start"))
                       /\ xrun' = [xrun EXCEPT !.pc = "returned", !.given = heap[xrun.env]]
                       /\ UNCHANGED xchild
                  ELSE /\ xchild' = [NoChild EXCEPT !.state = "running", !.env = merged.out]
                       /\ xrun' = [xrun EXCEPT !.pc = "wait", !.loop = "running",
                                               !.given = heap[xrun.env]]
                       /\ UNCHANGED xout
    /\ UNCHANGED <<xin, xsig, xsent, xauth,
                   cacheVars, mergeVars, resolverVars, tokenVars>>

\* The signals are notified from ForwardSignals until cleanup's signal.Stop.
Notified == xrun.pc = "wait"

\* os/signal: a signal is sent to sigChan without blocking; it is dropped
\* when the channel's buffer is full
SignalArrives(sig) ==
    /\ Notified
    /\ Len(xsent) < MaxSignals
    /\ xsent' = Append(xsent, sig)
    /\ xsig' = IF Len(xsig) < sigChanCap THEN Append(xsig, sig) ELSE xsig
    /\ UNCHANGED <<heap, xin, xrun, xchild, xout, xauth,
                   cacheVars, mergeVars, resolverVars, tokenVars>>

\* forwardLoop's first case: process.Signal(sig), its error ignored
Forward ==
    /\ xrun.loop = "running"
    /\ xsig # <<>>
    /\ xsig' = Tail(xsig)
    /\ xchild' = IF xchild.state = "running"
                 THEN [xchild EXCEPT !.got = Append(@, Head(xsig))]
                 ELSE xchild
    /\ UNCHANGED <<heap, xin, xrun, xsent, xout, xauth,
                   cacheVars, mergeVars, resolverVars, tokenVars>>

\* forwardLoop's select, mutated: <-done is not one of its cases.
LoopCanReturnOnCtxOnly == xrun.ctx

\* forwardLoop's select can take <-done (closed by cleanup, which Run has
\* deferred) or <-ctx.Done()
LoopCanReturn == xrun.pc = "returned" \/ xrun.ctx

\* forwardLoop's other cases: done is closed, or ctx is done
LoopReturns ==
    /\ xrun.loop = "running"
    /\ LoopCanReturn
    /\ xrun' = [xrun EXCEPT !.loop = "exited"]
    /\ UNCHANGED <<heap, xin, xchild, xsig, xsent, xout, xauth,
                   cacheVars, mergeVars, resolverVars, tokenVars>>

\* The context given to Run is cancelled.
ExecCancel ==
    /\ xrun.pc = "wait"
    /\ ~xrun.ctx
    /\ xrun' = [xrun EXCEPT !.ctx = TRUE]
    /\ UNCHANGED <<heap, xin, xchild, xsig, xsent, xout, xauth,
                   cacheVars, mergeVars, resolverVars, tokenVars>>

\* The child ends.
ChildExits ==
    /\ xchild.state = "running"
    /\ \E err \in WaitErrors : xchild' = [xchild EXCEPT !.state = "exited", !.err = err]
    /\ UNCHANGED <<heap, xin, xrun, xsig, xsent, xout, xauth,
                   cacheVars, mergeVars, resolverVars, tokenVars>>

\* cmd.Wait returns and Run with it, after cleanup (signal.Stop, close(done))
RunReturn ==
    /\ xrun.pc = "wait"
    /\ xchild.state = "exited"
    /\ xout' = Returns(xchild.err)
    /\ xrun' = [xrun EXCEPT !.pc = "returned"]
    /\ UNCHANGED <<heap, xin, xchild, xsig, xsent, xauth,
                   cacheVars, mergeVars, resolverVars, tokenVars>>

InitExec ==
    /\ heap = <<>> /\ IdleCache /\ IdleMerge /\ IdleResolver /\ IdleTokenOnly
    /\ xin \in [environ : ExecEnvirons, defaults : ExecDefaults, secrets : ExecSecrets,
                command : ExecCommands]
    /\ xrun = [pc |-> "overlay", environ |-> xin.environ, env |-> 0, given |-> <<>>,
               loop |-> "none", ctx |-> FALSE]
    /\ xchild = NoChild
    /\ xsig = <<>>
    /\ xsent = <<>>
    /\ xout = NoOut
    /\ xauth = NilCfg

NextExec ==
    \/ ExecOverlay
    \/ RunStart
    \/ \E sig \in Signals : SignalArrives(sig)
    \/ Forward
    \/ LoopReturns
    \/ ExecCancel
    \/ ChildExits
    \/ RunReturn

SpecExec == InitExec /\ [][NextExec]_vars

\* cmd.Wait returns once the child has ended, the forwarding goroutine is
\* scheduled, and a select that is offered <-done or <-ctx.Done() again and
\* again takes it: select chooses among its ready cases at random.
SpecExecFair == InitExec /\ [][NextExec]_vars /\ WF_vars(RunReturn) /\ SF_vars(LoopReturns)

-----------------------------------------------------------------------------
(* cmd's authenticateNew and internal/vault: OIDCAuth, AppRoleAuth *)
(* A token, like a URL, is a sequence of tokens; <<>> is the empty string.   *)

\* What client.inner.Logical().Write/ReadWithData may return: an error, or a
\* secret that is nil or not, whose part of interest (Auth for a login, Data
\* for auth_url) is nil or not, and the string in that part (ClientToken,
\* auth_url)
VaultAnswer(fail, secret, part, value) ==
    [fail |-> fail, secret |-> secret, part |-> part, value |-> value]

VaultAnswers(values) ==
    {VaultAnswer(TRUE, FALSE, FALSE, <<>>), VaultAnswer(FALSE, FALSE, FALSE, <<>>),
     VaultAnswer(FALSE, TRUE, FALSE, <<>>)}
        \cup {VaultAnswer(FALSE, TRUE, TRUE, v) : v \in values}

\* A login may answer with an Auth whose ClientToken is empty.
LoginAnswers == VaultAnswers({<<>>, <<"s.new">>})
AuthURLAnswers == VaultAnswers({<<>>, <<"https://idp">>})

\* AppRoleAuth, lines 22-31: the token of the login's answer, or an error
appRoleLogin(answer) ==
    IF answer.fail THEN [err |-> "approle auth", token |-> <<>>]
    ELSE IF ~answer.secret \/ ~answer.part THEN [err |-> "approle auth: empty auth response", token |-> <<>>]
    ELSE [err |-> "", token |-> answer.value]

\* exchangeOIDCCode, lines 145-154
exchangeOIDCCode(answer) ==
    IF answer.fail THEN [err |-> "exchanging OIDC code for token", token |-> <<>>]
    ELSE IF ~answer.secret \/ ~answer.part
    THEN [err |-> "exchanging OIDC code for token: empty auth response", token |-> <<>>]
    ELSE [err |-> "", token |-> answer.value]

\* requestAuthURL, lines 69-83
requestAuthURL(answer) ==
    IF answer.fail THEN "requesting OIDC auth URL"
    ELSE IF ~answer.secret \/ ~answer.part THEN "requesting OIDC auth URL: empty response"
    ELSE IF answer.value = <<>> THEN "requesting OIDC auth URL: missing auth_url in response"
    ELSE ""

\* AppRoleAuth, lines 9-15: the error of its argument checks ("": none)
appRoleArgs(roleID, secretID) ==
    IF roleID = <<>> THEN "approle auth: role_id is required"
    ELSE IF secretID = <<>> THEN "approle auth: secret_id is required"
    ELSE ""

\* authenticateNew's end, mutated: the client's token is cached whatever happened.
cacheTokenAlways(entry, file, err, token) ==
    IF entry = "authenticateNew" THEN writeTokenTo(token) ELSE file

\* authenticateNew's end: an error is returned before token.WriteToken; the
\* sink after it. A direct call of AppRoleAuth writes no file.
cacheToken(entry, file, err, token) ==
    IF entry = "authenticateNew" /\ err = "" THEN writeTokenTo(token) ELSE file

NoAuth ==
    [entry |-> "none", method |-> "", roleID |-> <<>>, secretID |-> <<>>, pc |-> "start",
     token |-> <<>>, before |-> <<>>, sinkBefore |-> NoFile, reqs |-> <<>>, err |-> "",
     granted |-> <<>>]

authFrame ==
    <<heap, xin, xrun, xchild, xsig, xsent, xout, pidfile, vault, calls, rlog, daemonVars,
      cacheVars, mergeVars, resolverVars>>

\* The flow ends with err; the sink is written if authenticateNew succeeded.
AuthEnds(err, token, granted) ==
    /\ xauth' = [xauth EXCEPT !.pc = "done", !.err = err, !.token = token, !.granted = granted]
    /\ sink' = cacheToken(xauth.entry, sink, err, token)
    /\ UNCHANGED authFrame

\* The flow goes on to pc after sending a request to path.
AuthSends(path, pc) ==
    /\ xauth' = [xauth EXCEPT !.pc = pc, !.reqs = Append(@, path)]
    /\ UNCHANGED <<sink, authFrame>>

\* newClientForAuth: for oidc, the client is given the sink's token if it reads
newClientForAuth(method, file) ==
    IF method = "oidc" /\ readTokenFrom(file).err = "" THEN readTokenFrom(file).tok ELSE <<>>

\* authenticateNew is called: the client is made
AuthenticateNew ==
    /\ xauth.entry = "authenticateNew"
    /\ xauth.pc = "start"
    /\ xauth' = [xauth EXCEPT !.pc = "switch",
                              !.token = newClientForAuth(xauth.method, sink),
                              !.before = newClientForAuth(xauth.method, sink)]
    /\ UNCHANGED <<sink, authFrame>>

\* authenticateNew's switch, up to the first wait of the method chosen
AuthSwitch ==
    /\ xauth.pc = "switch"
    /\ CASE xauth.method = "oidc" ->
                \* OIDCAuth: net.Listen fails, or requestAuthURL sends its request
                \/ AuthEnds("starting OIDC callback listener", xauth.token, <<>>)
                \/ AuthSends("auth/oidc/oidc/auth_url", "auth_url")
         [] xauth.method = "approle" ->
                IF xauth.roleID = <<>> \/ xauth.secretID = <<>>
                THEN AuthEnds("AppRole auth requires --role-id and --secret-id", xauth.token, <<>>)
                ELSE /\ xauth' = [xauth EXCEPT !.pc = "approle"]
                     /\ UNCHANGED <<sink, authFrame>>
         [] OTHER -> AuthEnds("unsupported auth method", xauth.token, <<>>)

\* AppRoleAuth is called, by authenticateNew or directly
AppRoleAuth ==
    /\ \/ xauth.pc = "approle"
       \/ xauth.entry = "AppRoleAuth" /\ xauth.pc = "start"
    /\ IF appRoleArgs(xauth.roleID, xauth.secretID) # ""
       THEN AuthEnds(appRoleArgs(xauth.roleID, xauth.secretID), xauth.token, <<>>)
       ELSE AuthSends("auth/approle/login", "login")

\* AppRoleAuth: the login's answer arrives
AppRoleLogin ==
    /\ xauth.pc = "login"
    /\ \E answer \in LoginAnswers :
          LET r == appRoleLogin(answer)
          IN AuthEnds(r.err, IF r.err = "" THEN r.token ELSE xauth.token, answer.value)

\* OIDCAuth: auth_url's answer arrives; then the browser is opened
OIDCAuthURL ==
    /\ xauth.pc = "auth_url"
    /\ \E answer \in AuthURLAnswers :
          IF requestAuthURL(answer) # ""
          THEN AuthEnds(requestAuthURL(answer), xauth.token, <<>>)
          ELSE \/ AuthEnds("opening browser for OIDC login", xauth.token, <<>>)
               \/ /\ xauth' = [xauth EXCEPT !.pc = "callback"]
                  /\ UNCHANGED <<sink, authFrame>>

\* waitForCallback returns: a code, the provider's error, or the timeout
OIDCCallback ==
    /\ xauth.pc = "callback"
    /\ \/ AuthEnds("OIDC callback error", xauth.token, <<>>)
       \/ AuthEnds("OIDC authentication timed out after 2 minutes", xauth.token, <<>>)
       \/ AuthSends("auth/oidc/oidc/callback", "exchange")

\* OIDCAuth: the exchange's answer arrives
OIDCExchange ==
    /\ xauth.pc = "exchange"
    /\ \E answer \in LoginAnswers :
          LET r == exchangeOIDCCode(answer)
          IN AuthEnds(r.err, IF r.err = "" THEN r.token ELSE xauth.token, answer.value)

InitAuth ==
    /\ heap = <<>> /\ IdleCache /\ IdleMerge /\ IdleResolver /\ IdleDaemon
    /\ xin = NilCfg /\ xrun = NilCfg /\ xchild = NilCfg
    /\ xsig = <<>> /\ xsent = <<>> /\ xout = NilCfg
    /\ pidfile = NilCfg /\ vault = NilCfg /\ calls = NilCfg /\ rlog = NilCfg
    /\ sink \in SinkFiles
    /\ \E entry \in {"authenticateNew", "AppRoleAuth"}, method \in {"oidc", "approle", "ldap"},
          roleID \in {<<>>, <<"role">>}, secretID \in {<<>>, <<"secret">>},
          token \in {<<>>, <<"s.old">>} :
          /\ entry = "AppRoleAuth" => method = "approle"
          /\ entry = "authenticateNew" => token = <<>>
          /\ xauth = [NoAuth EXCEPT !.entry = entry, !.method = method, !.roleID = roleID,
                                    !.secretID = secretID, !.token = token, !.before = token,
                                    !.sinkBefore = sink]

NextAuth ==
    \/ AuthenticateNew
    \/ AuthSwitch
    \/ AppRoleAuth
    \/ AppRoleLogin
    \/ OIDCAuthURL
    \/ OIDCCallback
    \/ OIDCExchange

SpecAuth == InitAuth /\ [][NextAuth]_vars

-----------------------------------------------------------------------------
(* Claims about the cache *)

\* g's last call was a Get and it has returned.
GetDone(g) == gpc[g] = "idle" /\ gop[g].op = "get"

\* What the cache holds, by value.
StoredView ==
    [p \in DOMAIN entries |-> [m |-> heap[entries[p].data], expiresAt |-> entries[p].expiresAt]]

\* C5 as stated: after Set(p, m) at t0 with no later Set of p, a Get(p) that
\* reads the clock after t0 + ttl misses, and one that reads it before
\* t0 + ttl hits with m's contents.
C5_AsStated ==
    \A g \in Clients :
        GetDone(g) /\ gop[g].h.set =>
            /\ (gop[g].at > gop[g].h.t0 + ttl => ~gop[g].ok)
            /\ (gop[g].at < gop[g].h.t0 + ttl => gop[g].ok /\ gop[g].m = gop[g].h.m)

\* C5 amended: the same, the hit being promised only when no Clear followed
\* the Set.
C5_Expiry ==
    \A g \in Clients :
        GetDone(g) /\ gop[g].h.set =>
            /\ (gop[g].at > gop[g].h.t0 + ttl => ~gop[g].ok)
            /\ (gop[g].at < gop[g].h.t0 + ttl /\ ~gop[g].h.cleared
                    => gop[g].ok /\ gop[g].m = gop[g].h.m)

\* One Get hit before the expiry of its path's entry, another missed after it.
C5_Witness ==
    \E g1, g2 \in Clients :
        /\ GetDone(g1) /\ gop[g1].h.set /\ ~gop[g1].h.cleared
        /\ gop[g1].at < gop[g1].h.t0 + ttl /\ gop[g1].ok
        /\ GetDone(g2) /\ gop[g2].h.set /\ ~gop[g2].h.cleared
        /\ gop[g2].at > gop[g2].h.t0 + ttl /\ ~gop[g2].ok

\* C6: what the cache holds changes only in the step in which a Set or a
\* Clear writes c.entries; a caller writing into a map it passed to Set or
\* got from Get leaves it as it was.
C6_StoredChangesOnlyBySetOrClear ==
    [][StoredView' # StoredView =>
          \E g \in Clients : /\ gpc[g] \in {"set_storing", "clear_store"}
                             /\ gpc'[g] = "idle"]_vars

\* A Get of p has returned a map, the caller has since written to that map,
\* and p's entry still holds what its Set was given.
C6_Witness ==
    \E g \in Clients :
        /\ GetDone(g) /\ gop[g].ok
        /\ heap[gop[g].ref] # gop[g].m
        /\ gop[g].path \in DOMAIN entries
        /\ ~hist[gop[g].path].cleared
        /\ heap[entries[gop[g].path].data] = hist[gop[g].path].m

\* C7: a Get returns an outcome that the Sets and Clears, taken as atomic at
\* the step that writes c.entries, allowed at some point between the Get's
\* call and its return: a miss, or the whole mapping of the one Set in effect.
C7_Linearizable ==
    \A g \in Clients :
        GetDone(g) =>
            (IF gop[g].ok THEN [ok |-> TRUE, m |-> gop[g].m] ELSE [ok |-> FALSE]) \in seen[g]

\* A Get that was called when its path had no entry returned the mapping of a
\* Set that took effect before the Get read.
C7_Witness ==
    \E g \in Clients :
        /\ GetDone(g) /\ gop[g].ok
        /\ [ok |-> FALSE] \in seen[g]

-----------------------------------------------------------------------------
(* Claims about Merge *)

\* The maps of the inputs: root's and workspace's secrets, defaults and
\* nested tables.
InputRefs == {1, 2, 3, 4, 5, 6, 7, 8}

Succeeded(i) == i \in 1..Len(mcalls) /\ mcalls[i].err = ""

\* C8: Merge is pure. The inputs' containers hold what they held before the
\* first call, whatever was called or written into a result since; any two
\* calls returned equal MergedConfigs (or the same error); and the maps of a
\* result are new: no input's map, no other result's map.
C8_MergePure ==
    /\ InputView(heap) = minput
    /\ \A i, j \in 1..Len(mcalls) :
          /\ mcalls[i].err = mcalls[j].err
          /\ mcalls[i].err = "" => mcalls[i].ret = mcalls[j].ret
    /\ \A i \in 1..Len(mcalls) :
          mcalls[i].err = "" =>
             /\ {mcalls[i].cfg.secrets, mcalls[i].cfg.defaults} \cap InputRefs = {}
             /\ mcalls[i].cfg.secrets # mcalls[i].cfg.defaults
             /\ \A j \in 1..Len(mcalls) :
                   (j # i /\ mcalls[j].err = "") =>
                      {mcalls[i].cfg.secrets, mcalls[i].cfg.defaults}
                         \cap {mcalls[j].cfg.secrets, mcalls[j].cfg.defaults} = {}

\* Merge was called twice with a workspace whose secrets overlay the root's,
\* and the caller has written into a map of the first result.
C8_Witness ==
    /\ Len(mcalls) = 2 /\ Succeeded(1) /\ Succeeded(2)
    /\ mws # NilCfg /\ minput.ws.secrets # <<>> /\ minput.root.secrets # <<>>
    /\ mwrites > 0
    /\ heap[mcalls[1].cfg.secrets] # mcalls[1].ret.secrets

\* C9: the merged secrets have the keys of root.secrets and workspace.secrets
\* together; a key of the workspace has the workspace's template, any other
\* the root's.
C9_SecretsOverlay ==
    \A i \in 1..Len(mcalls) :
        mcalls[i].err = "" =>
            LET rs == minput.root.secrets
                ws == IF mws = NilCfg THEN <<>> ELSE minput.ws.secrets
                got == mcalls[i].ret.secrets
            IN /\ DOMAIN got = DOMAIN rs \cup DOMAIN ws
               /\ \A k \in DOMAIN got :
                     got[k] = IF k \in DOMAIN ws THEN ws[k] ELSE rs[k]

\* A merge where root and workspace both map A, and each maps a key the
\* other does not.
C9_Witness ==
    /\ Succeeded(1)
    /\ mws # NilCfg
    /\ {"A", "B"} \subseteq DOMAIN minput.root.secrets
    /\ {"A", "C"} \subseteq DOMAIN minput.ws.secrets
    /\ mcalls[1].ret.secrets["A"] = minput.ws.secrets["A"]

\* The strings of a defaults section, and those of its table for env.
BaseLayer(d) == [k \in {x \in DOMAIN d : d[x].t = "str"} |-> d[k].s]

EnvLayer(d, env) ==
    IF env \in DOMAIN d /\ d[env].t = "tbl"
    THEN [k \in {x \in DOMAIN d[env].m : d[env].m[x].t = "str"} |-> d[env].m[k].s]
    ELSE <<>>

\* The four layers, lowest first.
Layers(env) ==
    <<BaseLayer(minput.root.defaults), EnvLayer(minput.root.defaults, env),
      IF mws = NilCfg THEN <<>> ELSE BaseLayer(minput.ws.defaults),
      IF mws = NilCfg THEN <<>> ELSE EnvLayer(minput.ws.defaults, env)>>

\* C10: each key's merged default is that of the last of the four layers
\* (root base, root defaults[env], workspace base, workspace defaults[env])
\* that gives it a string; a key no layer gives a string has no default.
C10_DefaultsLayers ==
    \A i \in 1..Len(mcalls) :
        mcalls[i].err = "" =>
            LET got == mcalls[i].ret.defaults
                layers == Layers(mcalls[i].ret.environment)
            IN \A k \in {"K", "dev", "prod"} \cup DOMAIN got :
                  LET defs == {n \in 1..4 : k \in DOMAIN layers[n]}
                  IN IF defs = {} THEN k \notin DOMAIN got
                     ELSE k \in DOMAIN got /\ got[k] = layers[Max(defs)][k]

\* A merge where the root's table for the environment and the workspace's
\* base both give K a string, the workspace's table for the environment does
\* not, and the root has a table for another environment.
C10_Witness ==
    /\ Succeeded(1)
    /\ mws # NilCfg
    /\ LET layers == Layers(mcalls[1].ret.environment)
       IN /\ "K" \in DOMAIN layers[1] /\ "K" \in DOMAIN layers[2]
          /\ "K" \in DOMAIN layers[3] /\ "K" \notin DOMAIN layers[4]
          /\ mcalls[1].ret.defaults["K"] = layers[3]["K"]
    /\ "prod" \in DOMAIN minput.root.defaults
    /\ mcalls[1].ret.environment = "dev"

\* The environment a call of Merge works with: the argument, or the root's
\* default when the argument is empty.
EffectiveEnv == IF menv = "" THEN mroot.environments.default ELSE menv

\* C11: a call of Merge with a nil root returns an error; otherwise it
\* succeeds exactly when the environment (the root's default for an empty
\* argument) is one of the available ones, the MergedConfig then carries that
\* environment, and a call that fails returns no MergedConfig.
C11_EnvDefaultedAndChecked ==
    \A i \in 1..Len(mcalls) :
        /\ "cfg" \in DOMAIN mcalls[i] <=> mcalls[i].err = ""
        /\ IF mroot = NilCfg
           THEN mcalls[i].err = "root config is required"
           ELSE /\ mcalls[i].err = "" <=> contains(mroot.environments.available, EffectiveEnv)
                /\ mcalls[i].err = "" => mcalls[i].ret.environment = EffectiveEnv
                /\ mcalls[i].err # "" =>
                      mcalls[i].err = "environment is not in available environments"

\* Merge was called with an empty env and returned a MergedConfig for the
\* root's default environment.
C11_Witness ==
    /\ mroot # NilCfg /\ menv = ""
    /\ \E i \in 1..Len(mcalls) :
          mcalls[i].err = "" /\ mcalls[i].ret.environment = mroot.environments.default

-----------------------------------------------------------------------------
(* Claims about the resolver *)

\* C1: during a Resolve of a resolver built with WithMaxConcurrency(n), the
\* limit N is n when n >= 1 and 10 otherwise, and at every instant at most N
\* ReadKV calls of the Resolve have started and not yet returned.
C1_ReadsInFlightWithinLimit ==
    rpc # "idle" =>
        /\ rcall.max = (IF rcall.n >= 1 THEN rcall.n ELSE 10)
        /\ Cardinality(Reading) <= rcall.max

\* The limit binds: two reads in flight under a limit of 2 while a further
\* path waits to be dispatched.
C1_Witness ==
    /\ rpc = "dispatch" /\ rcall.n = 2
    /\ Cardinality(Reading) = 2
    /\ rcall.pending # {}

\* C2: a Resolve during which a ReadKV call returned an error returns an error
\* and no mapping, whatever else was fetched.
C2_AnyReadErrorFailsResolve ==
    \A i \in DOMAIN rhist :
        rhist[i].failed # {} =>
            ~rhist[i].out.ok /\ "result" \notin DOMAIN rhist[i].out

\* A Resolve failed although other paths of it were fetched.
C2_Witness ==
    \E i \in DOMAIN rhist :
        /\ rhist[i].failed # {}
        /\ DOMAIN rhist[i].fetched # {}
        /\ ~rhist[i].out.ok

\* C3: with the reader's answers fixed per path, every Resolve of the same
\* secrets and environment has the same outcome, whatever its concurrency
\* limit and however its tasks interleaved; in particular it is that of a
\* Resolve with limit 1.
C3_SameMappingForEveryConcurrency ==
    \A i, j \in DOMAIN rhist :
        /\ rhist[i].out.ok = rhist[j].out.ok
        /\ rhist[i].out.ok => rhist[i].out.result = rhist[j].out.result

\* A Resolve with limit 1 and one with limit 2 both returned a mapping drawn
\* from several paths.
C3_Witness ==
    \E i, j \in DOMAIN rhist :
        /\ rhist[i].n = 1 /\ rhist[j].n = 2
        /\ rhist[i].out.ok /\ rhist[j].out.ok
        /\ Cardinality(DOMAIN rhist[j].fetched) >= 2
        /\ Cardinality(DOMAIN rhist[j].out.result) >= 2

\* The vault path and key of env var ev's interpolated template.
Target(ev) == splitPath(Interpolate(rin.secrets[ev], rin.env))
Grouped(ev) == Target(ev)[1] # <<>> /\ Target(ev)[2] # <<>>

\* C4: a Resolve that succeeds has fetched the reader's mapping for the path
\* of every grouped env var, and an env var is in the result exactly when it
\* is grouped and that mapping has its key; its value is then the mapping's
\* value of the key.
C4_ResultIsPresentKeys ==
    \A i \in DOMAIN rhist :
        rhist[i].out.ok =>
            /\ DOMAIN rhist[i].out.result \subseteq DOMAIN rin.secrets
            /\ \A ev \in DOMAIN rin.secrets :
                  /\ Grouped(ev) =>
                        /\ Target(ev)[1] \in DOMAIN rhist[i].fetched
                        /\ rhist[i].fetched[Target(ev)[1]]
                              = ReadKV(fullPath(rin.base, Target(ev)[1])).data
                  /\ ev \in DOMAIN rhist[i].out.result
                        <=> (Grouped(ev)
                             /\ Target(ev)[2] \in DOMAIN rhist[i].fetched[Target(ev)[1]])
                  /\ ev \in DOMAIN rhist[i].out.result =>
                        rhist[i].out.result[ev]
                            = rhist[i].fetched[Target(ev)[1]][Target(ev)[2]]

\* A Resolve succeeded with one env var resolved and another, whose key the
\* fetched mapping lacks, omitted.
C4_Witness ==
    \E i \in DOMAIN rhist :
        /\ rhist[i].out.ok
        /\ \E ev \in DOMAIN rin.secrets :
              /\ Grouped(ev)
              /\ Target(ev)[2] \notin DOMAIN rhist[i].fetched[Target(ev)[1]]
              /\ ev \notin DOMAIN rhist[i].out.result
        /\ DOMAIN rhist[i].out.result # {}

-----------------------------------------------------------------------------
(* Claims about the grouper *)

\* The env vars that appear in the groups of the Resolve in progress.
GroupedEnvVars ==
    UNION {{rcall.groups[p][i].EnvVar : i \in DOMAIN rcall.groups[p]} : p \in DOMAIN rcall.groups}

\* Env var k's template with the environment put in.
Resolved(k) == Interpolate(rin.secrets[k], rin.env)

HasSlash(s) == \E i \in 1..Len(s) : s[i] = "/"

\* s has a "/" with something before the last one and something after it.
Addressable(s) == s # <<>> /\ s[Len(s)] # "/" /\ \E i \in 2..Len(s) : s[i] = "/"

\* Every produced (env_var, key) under vault_path: vault_path + "/" + key is
\* the env var's interpolated template, and the key has no "/".
SplitAtLastSlash ==
    \A p \in DOMAIN rcall.groups : \A i \in DOMAIN rcall.groups[p] :
        /\ p \o <<"/">> \o rcall.groups[p][i].Key = Resolved(rcall.groups[p][i].EnvVar)
        /\ ~HasSlash(rcall.groups[p][i].Key)

\* C12 as stated: the env vars in GroupByPath's groups are the keys whose
\* interpolated template contains "/", and each (env_var, key) under
\* vault_path joins back to the interpolated template, split at the last "/".
C12_AsStated ==
    rpc # "idle" =>
        /\ GroupedEnvVars = {k \in DOMAIN rin.secrets : HasSlash(Resolved(k))}
        /\ SplitAtLastSlash

\* C12, amended: the env vars in GroupByPath's groups are the keys whose
\* interpolated template has a non-empty part before its last "/" and a
\* non-empty part after it; each (env_var, key) under vault_path joins back
\* to the interpolated template, split at the last "/".
C12_GroupsRoundTrip ==
    rpc # "idle" =>
        /\ GroupedEnvVars = {k \in DOMAIN rin.secrets : Addressable(Resolved(k))}
        /\ SplitAtLastSlash

\* Secrets were grouped of which one has a "/" but nothing before or after
\* its last one, and another was grouped under a path with a "/" of its own.
C12_Witness ==
    /\ rpc # "idle"
    /\ \E k \in DOMAIN rin.secrets : HasSlash(Resolved(k)) /\ ~Addressable(Resolved(k))
    /\ \E p \in DOMAIN rcall.groups : HasSlash(p)

-----------------------------------------------------------------------------
(* Claims about the TokenRenewer *)

\* The lookup-self answer of the RenewOnce that has returned, if it got one
Answered == calls.pc = "done" /\ ~calls.lookup.fail /\ calls.lookup.status = 200
Sent(endpoint) == {i \in 1..Len(calls.reqs) : calls.reqs[i].endpoint = endpoint}

\* The renewal decision of the claim, of ttl and creation_ttl
DecisionOfLease(ttlSeconds, creationTTL) ==
    IF ttlSeconds <= 0 THEN FALSE
    ELSE IF creationTTL > 0 THEN ttlSeconds < creationTTL \div 2
    ELSE TRUE

\* C13: the renewal decision is false when ttl <= 0, is ttl < creation_ttl / 2
\* when both are positive, and is true when ttl > 0 and creation_ttl is
\* unknown; a RenewOnce that was told of a renewable token has sent renew-self
\* exactly when that decision is true.
C13_AsStated ==
    (Answered /\ calls.lookup.body.renewable)
        => (Sent("renew-self") # {}
              <=> DecisionOfLease(calls.lookup.body.ttl, calls.lookup.body.creation_ttl))

\* C14: a RenewOnce that lookup-self told of a renewable token needing
\* renewal has sent exactly one renew-self, after its lookup-self and with the
\* token it read from the sink; if renew-self gave a client token the sink was
\* overwritten with exactly that token, and if it gave an empty one RenewOnce
\* failed.
C14_AsStated ==
    (/\ Answered /\ calls.lookup.body.renewable
     /\ DecisionOfLease(calls.lookup.body.ttl, calls.lookup.body.creation_ttl))
        => /\ Cardinality(Sent("renew-self")) = 1
           /\ \A i \in Sent("renew-self") :
                 /\ \E j \in Sent("lookup-self") : j < i
                 /\ calls.reqs[i].token = calls.tok
           /\ (~calls.renew.fail /\ calls.renew.status = 200)
                 => IF calls.renew.body.client_token = <<>>
                    THEN calls.err # ""
                    ELSE calls.wrote = File(calls.renew.body.client_token \o <<"\n">>)

\* The steps of the callers: a RenewOnce returns; it returns having completed
\* a renewal; an authentication flow succeeds; a query returns.
RenewOnceReturns == calls.pc # "done" /\ calls'.pc = "done"
RenewalCompletes == calls.pc = "renew" /\ calls'.pc = "done" /\ calls'.err = ""
AuthFlowSucceeds == rlog'.op = "Login"
QueryReturns == rlog'.op \in {"NeedsReauth", "IsRunning", "Status"} /\ calls' = NoRenewOnce

\* C15: the sink changes only in a step in which RenewOnce completes a renewal
\* or an authentication flow succeeds; a RenewOnce that returns an error or
\* returns without renewing leaves it as it was, and so do NeedsReauth,
\* IsRunning and Status.
C15_SinkWrittenOnlyByRenewalOrLogin ==
    [][/\ sink' # sink => (RenewalCompletes \/ AuthFlowSucceeds)
       /\ (RenewOnceReturns /\ ~RenewalCompletes /\ ~AuthFlowSucceeds) => sink' = sink
       /\ QueryReturns => sink' = sink]_vars

C15_Witness ==
    /\ calls.pc = "done" /\ calls.err = "renew: renew-self"
    /\ sink = File(<<"s.old", "\n">>)

\* The cases of a NeedsReauth call, of the file it found and the answer to
\* its lookup-self
TokenMissingOrEmpty(file) == ~file.exists \/ \A i \in 1..Len(file.bytes) : file.bytes[i] \in Blank
LookupFailed(resp) == resp.fail \/ resp.status # 200
ExpiredWithExpireTime(resp) == resp.body.ttl <= 0 /\ resp.body.expire_time # "nil"

\* C16: NeedsReauth returns true exactly when the token file is missing or
\* empty after trimming, or lookup-self fails or is not a 200, or the lookup
\* reports ttl <= 0 together with an expire_time; in every other case, ttl <= 0
\* without an expire_time among them, it returns false.
C16_NeedsReauthCases ==
    rlog.op = "NeedsReauth"
        => (rlog.result <=> \/ TokenMissingOrEmpty(rlog.file)
                            \/ LookupFailed(rlog.resp)
                            \/ ExpiredWithExpireTime(rlog.resp))

C16_Witness ==
    /\ rlog.op = "NeedsReauth" /\ ~rlog.result
    /\ ~TokenMissingOrEmpty(rlog.file) /\ ~LookupFailed(rlog.resp)
    /\ rlog.resp.body.ttl <= 0 /\ rlog.resp.body.expire_time = "nil"

-----------------------------------------------------------------------------
(* Claims about the Daemon *)

\* The PID file holds the id of process n; it names a process that is alive
HoldsPid(file, n) == file.exists /\ file.bytes = <<ToString(n), "\n">>
NamesLiveProcess(file) ==
    /\ file.exists
    /\ \E n \in DaemonPids \cup OtherLivePids : TrimSpace(file.bytes) = <<ToString(n)>>

\* C17: once a Start has returned success, while its context is not cancelled
\* and Stop has not been called, the PID file holds the daemon's process id
\* and IsRunning returns true; once Stop has returned, and until Start is
\* called again, the PID file does not exist and IsRunning returns false,
\* whether or not the supervisor has exited yet.
C17_Lifecycle ==
    \A p \in procs :
        /\ (dlog[p].okctx # 0 /\ dlog[p].okctx \notin cancelled[p] /\ ~stopc[p])
              => HoldsPid(pidfile, p) /\ IsRunning(pidfile)
        /\ dlog[p].last = "stop: ok" => ~pidfile.exists /\ ~IsRunning(pidfile)

C17_Witness ==
    /\ 1 \in procs
    /\ dlog[1].last = "stop: ok" /\ dlog[1].okctx # 0
    /\ DOMAIN loops[1] # {} /\ ActiveLoops(1) = {}
    /\ ~pidfile.exists

\* The last call of p was a Start
StartCalled(p) == dlog[p].last \in {"start: already running", "start: pending", "start: ok"}

\* Start fails with already-running iff IsRunning() was true at the call.
FailsIffRunning(p) ==
    StartCalled(p) => (dlog[p].last = "start: already running" <=> NamesLiveProcess(dlog[p].file))

\* The Start failed and spawned no supervisor.
Refused(p) == dlog[p].last = "start: already running" /\ dlog[p].ctx \notin DOMAIN loops[p]

\* C18 as stated: Start fails with already-running iff IsRunning() is true at
\* the call, and a Start that follows a successful Start with no Stop and no
\* cancellation in between fails with already-running and spawns no second
\* supervisor.
C18_AsStated ==
    \A p \in procs :
        /\ FailsIffRunning(p)
        /\ (StartCalled(p) /\ dlog[p].follows) => Refused(p)

\* C18: Start fails with already-running iff IsRunning() is true at the call;
\* a Start that follows a successful Start whose context has not been
\* cancelled, on a Daemon whose Stop has never been called, fails with
\* already-running and spawns no second supervisor, and while neither happens
\* the PID file is the one the call found, that of the first Start, and the
\* first supervisor is the only one.
C18_SecondStartRefused ==
    \A p \in procs :
        /\ FailsIffRunning(p)
        /\ (StartCalled(p) /\ dlog[p].undisturbed) => Refused(p)
        /\ (StartCalled(p) /\ dlog[p].undisturbed /\ ~stopc[p]
                /\ dlog[p].okctx \notin cancelled[p])
              => /\ pidfile = dlog[p].file /\ HoldsPid(pidfile, p)
                 /\ ActiveLoops(p) = {dlog[p].okctx}

C18_Witness ==
    /\ 1 \in procs
    /\ dlog[1].undisturbed /\ dlog[1].last = "start: already running"
    /\ HoldsPid(dlog[1].file, 1)

\* C20: of one Daemon, at most one RenewOnce is in progress at any time.
C20_AsStated == \A p \in procs : Cardinality(Renewing(p)) <= 1

\* C19: of the daemon processes racing on one PID file, a later one fails its
\* own Start with already-running, so that no two of them have started, and
\* at most one supervisor loop is active under every interleaving.
C19_AsStated ==
    /\ \A p, q \in procs : (dlog[p].okctx # 0 /\ dlog[q].okctx # 0) => p = q
    /\ Cardinality({p \in procs : ActiveLoops(p) # {}}) <= 1

\* The supervisor of Start number k has been told to stop; it has returned
ToldToStop(k) == k \in DOMAIN loops[1] /\ (stopc[1] \/ k \in cancelled[1])
Exited(k) == k \in DOMAIN loops[1] /\ loops[1][k].pc = "exited"

\* C21: once the stop channel is closed or its context is cancelled a
\* supervisor eventually returns, every RenewOnce returning; and in the step
\* in which a supervisor returns the PID file is removed, whether it was
\* there or not.
C21_SupervisorExits ==
    /\ \A k \in 1..MaxStarts : ToldToStop(k) ~> Exited(k)
    /\ [][\A k \in 1..MaxStarts : (~Exited(k) /\ Exited(k)') => ~pidfile'.exists]_vars

C21_Witness ==
    \E k \in 1..MaxStarts :
        /\ Exited(k) /\ ~stopc[1] /\ k \in cancelled[1]
        /\ ~pidfile.exists

\* A step in which Stop is called and returns
StopReturns == dlog'[1].stopped # dlog[1].stopped

\* C22: a Stop on a closed stop channel fails with not-running and leaves the
\* PID file alone; any other Stop closes the channel and removes the PID
\* file; the channel stays closed. So the first Stop of a Daemon succeeds and
\* every later one fails.
C22_OnlyFirstStopSucceeds ==
    [][/\ (StopReturns /\ stopc[1])
            => /\ dlog'[1].last = "stop: not running"
               /\ pidfile' = pidfile /\ stopc'[1]
       /\ (StopReturns /\ ~stopc[1])
            => /\ dlog'[1].last = "stop: ok"
               /\ ~pidfile'.exists /\ stopc'[1]
       /\ stopc[1] => stopc'[1]]_vars

C22_Witness ==
    /\ 1 \in procs
    /\ dlog[1].last = "stop: not running" /\ stopc[1]
    /\ HoldsPid(pidfile, 1)

\* C23: IsRunning returns true only of a PID file that exists, parses as a
\* PID and names a live process; of a missing, empty or unparsable file or a
\* stale PID it returns false, and so does Status().Running; neither call
\* modifies the PID file.
C23_IsRunningReadOnly ==
    /\ [](/\ rlog.op = "IsRunning" => (rlog.result <=> NamesLiveProcess(rlog.file))
          /\ rlog.op = "Status" => (rlog.status.Running <=> NamesLiveProcess(rlog.file)))
    /\ [][(rlog'.op \in {"IsRunning", "Status"} /\ calls' = NoRenewOnce)
             => pidfile' = pidfile /\ rlog'.file = pidfile]_vars

C23_Witness ==
    /\ rlog.op = "IsRunning" /\ ~rlog.result
    /\ \E n \in DeadPids : HoldsPid(rlog.file, n)
    /\ pidfile = rlog.file


-----------------------------------------------------------------------------
(* Claims about vx exec *)

ExecNames == {KA, KB, KC, KD}

\* The values a process whose environment is envv finds under name (none: absent)
Getenv(envv, name) ==
    {SubSeq(envv[i], Len(name) + 2, Len(envv[i])) :
        i \in {j \in 1..Len(envv) : /\ Len(envv[j]) > Len(name)
                                    /\ SubSeq(envv[j], 1, Len(name) + 1) = name \o <<Eq>>}}

\* The resolved secret, else the merged default, else the parent's value
Precedence(name) ==
    IF name \in DOMAIN xin.secrets THEN {xin.secrets[name]}
    ELSE IF name \in DOMAIN xin.defaults THEN {xin.defaults[name]}
    ELSE Getenv(xin.environ, name)

\* C24: the child finds under every name the resolved secret if there is one,
\* else the merged default if there is one, else the parent's value, and
\* nothing under a name that is in none of the three; Run leaves the parent's
\* environment and the map it was given as they were.
C24_ChildEnvPrecedence ==
    /\ xchild.state # "none" => \A name \in ExecNames : Getenv(xchild.env, name) = Precedence(name)
    /\ xrun.pc \in {"wait", "returned"} =>
          /\ xrun.environ = xin.environ
          /\ heap[xrun.env] = xrun.given

\* A child runs with a name from each layer: KA only the parent's (and a
\* default in one input), KB a default over the parent's, KC a secret over both.
C24_Witness ==
    /\ xchild.state = "running"
    /\ xin.environ # <<>>
    /\ KB \in DOMAIN xin.defaults
    /\ KC \in DOMAIN xin.secrets
    /\ Getenv(xchild.env, KA) = {<<"p">>}
    /\ Getenv(xchild.env, KB) = {<<"d">>}
    /\ Getenv(xchild.env, KC) = {<<"s">>}
    /\ Getenv(xchild.env, KD) = {}

\* C25 as stated: while the child runs and ctx is not cancelled, every signal
\* delivered to the parent is forwarded to the child, however fast the signals
\* arrive: those delivered are those the child has received, followed by those
\* waiting in sigChan.
C25_AsStated ==
    (xchild.state = "running" /\ ~xrun.ctx) => xsent = xchild.got \o xsig

\* C26: ExitCode is 0 for nil, the child's exit code for an exit error and 1
\* for any other error; Run returns the child's wait error as it is, and with
\* an empty argv it returns an error and no child was spawned.
C26_ExitCodes ==
    xout.returned =>
        /\ xout.err.kind = "nil" => xout.code = 0
        /\ xout.err.kind = "exit" => xout.code = xout.err.code
        /\ xout.err.kind \notin {"nil", "exit"} => xout.code = 1
        /\ xchild.state = "exited" => xout.err = xchild.err
        /\ xchild.state # "exited" => xout.err.kind \notin {"nil", "exit"}
        /\ xin.command = <<>> => xout.err.kind = "empty" /\ xchild.state = "none"

\* Run has returned the exit error of a child that exited with status 3.
C26_Witness ==
    /\ xout.returned
    /\ xchild.state = "exited"
    /\ xchild.err = ExitError(3)
    /\ xout.code = 3

-----------------------------------------------------------------------------
(* Claims about the token sink *)

AllSpace(b) == \A i \in 1..Len(b) : b[i] \in Blank

\* b without the whitespace around it: from its first to its last element
\* that is not whitespace
Stripped(b) ==
    LET solid == {i \in 1..Len(b) : b[i] \notin Blank}
    IN IF solid = {} THEN <<>>
       ELSE SubSeq(b, CHOOSE i \in solid : \A j \in solid : i <= j, Max(solid))

\* C27: a Read after Write(t) returns t without the whitespace around it when
\* t is not all whitespace, and fails when it is (Write("") included); a Read
\* fails when the file is missing, empty or all whitespace, and after Remove;
\* Remove succeeds, also when the file is missing, and leaves no file.
C27_SinkRoundTrip ==
    /\ rlog.op = "read" =>
          /\ (rlog.last.op = "write" /\ ~AllSpace(rlog.last.token)) =>
                rlog.err = "" /\ rlog.tok = Stripped(rlog.last.token)
          /\ (rlog.last.op = "write" /\ AllSpace(rlog.last.token)) => rlog.err # ""
          /\ rlog.last.op = "remove" => rlog.err # ""
          /\ (~sink.exists \/ AllSpace(sink.bytes)) => rlog.err # ""
    /\ rlog.op = "remove" => rlog.err = "" /\ ~sink.exists

\* A Read returned the token of a Write that had whitespace around it.
C27_Witness ==
    /\ rlog.op = "read"
    /\ rlog.last = [op |-> "write", token |-> <<" ", "s.a", " ">>]
    /\ rlog.tok = <<"s.a">>

-----------------------------------------------------------------------------
(* Claims about the authentication *)

AuthSucceeded == xauth.pc = "done" /\ xauth.err = ""
AuthFailed == xauth.pc = "done" /\ xauth.err # ""

\* C28 as stated: whenever OIDCAuth or AppRoleAuth returns success, the client
\* holds a non-empty token, the ClientToken of Vault's answer to the login or
\* exchange, whatever that answer was.
C28_AsStated ==
    AuthSucceeded => xauth.token = xauth.granted /\ xauth.token # <<>>

\* C29: when the authentication fails, at whatever step, the sink is as it
\* was and the client's token is the one it had; AppRoleAuth's checks of
\* role_id and secret_id fail before any request is sent.
C29_FailureLeavesNoTrace ==
    AuthFailed =>
        /\ sink = xauth.sinkBefore
        /\ xauth.token = xauth.before
        /\ (xauth.roleID = <<>> \/ xauth.secretID = <<>>) /\ xauth.method = "approle"
              => xauth.reqs = <<>>

\* authenticateNew failed at the code exchange, its client holding the stale
\* token of the sink.
C29_Witness ==
    /\ AuthFailed
    /\ xauth.entry = "authenticateNew"
    /\ xauth.err = "exchanging OIDC code for token"
    /\ xauth.before = <<"s.old">>
    /\ Len(xauth.reqs) = 2

-----------------------------------------------------------------------------
(* Claims about Resolve's join *)

\* Resolve goes from fetchAll to mapResults and returns.
ResolveJoins == rpc = "wait" /\ Len(rhist') > Len(rhist)

Storing == {p \in DOMAIN tpc : tpc[p] = "storing"}

\* C30: when Resolve joins (reads the fetched values to build its result),
\* every fetch task of that call has returned, so no ReadKV of it is in
\* flight and no slot is held; and at no time do two tasks hold the lock
\* under which results is written.
C30_JoinAfterTasks ==
    /\ [](Cardinality(Storing) <= 1)
    /\ [][ResolveJoins => /\ \A p \in DOMAIN tpc : tpc[p] = "done"
                          /\ Reading = {}
                          /\ sem = 0
                          /\ rcall.pending = {}]_vars

\* A Resolve that ran two fetch tasks side by side has joined their results.
C30_Witness ==
    /\ rpc = "idle"
    /\ rhist # <<>>
    /\ WithMaxConcurrency(rhist[1].n) >= 2
    /\ Cardinality(DOMAIN rhist[1].fetched) >= 2
    /\ rhist[1].out.ok

-----------------------------------------------------------------------------
(* Claims about the reader's calls *)

\* base_path + "/" + path, or just path when base_path is empty
ExpectedFull(p) == IF rin.base = <<>> THEN p ELSE rin.base \o <<"/">> \o p

\* C31: in every Resolve the reader is called exactly once for each grouped
\* path that did not hit the cache, with the full path, and for no other;
\* without a cache nothing hits; with no secrets the reader is not called; and
\* a Resolve calls it for no path that an earlier one read and stored less
\* than the TTL before (cached: the paths a Resolve stored, with their expiry;
\* a path read again is stored again, at the time of that read plus the TTL).
C31_OneReadPerMissedPath ==
    \A i \in DOMAIN rhist :
        /\ DOMAIN rhist[i].reads = {ExpectedFull(p) : p \in rhist[i].paths \ rhist[i].hits}
        /\ \A full \in DOMAIN rhist[i].reads : rhist[i].reads[full] = 1
        /\ ~rin.cache => rhist[i].hits = {}
        /\ DOMAIN rin.secrets = {} => rhist[i].reads = <<>>
        /\ \A j \in 1..(i - 1) : \A full \in DOMAIN rhist[i].reads \cap DOMAIN rhist[j].cached :
              rhist[i].cached[full] - ttl > rhist[j].cached[full]

\* A Resolve with a base path called the reader, and the next one, of the
\* same inputs, was served by the cache alone.
C31_Witness ==
    /\ Len(rhist) = 2
    /\ rin.base # <<>>
    /\ rhist[1].reads # <<>>
    /\ rhist[2].paths # {}
    /\ rhist[2].hits = rhist[2].paths
    /\ rhist[2].reads = <<>>

\* The step stores under full the mapping that a successful ReadKV(full) has
\* just returned to the task of a grouped path, and touches no other entry.
StoresItsRead ==
    \E path \in DOMAIN tpc :
        /\ tpc[path] = "reading" /\ tpc'[path] = "have"
        /\ ~ReadKV(ExpectedFull(path)).err
        /\ StoredView' = (ExpectedFull(path) :> [m |-> ReadKV(ExpectedFull(path)).data,
                                                 expiresAt |-> now + ttl]) @@ StoredView

\* C38: what the resolver's cache holds changes only by storing, under its
\* full path, the mapping of a ReadKV that succeeded; the paths a Resolve
\* stored are in the cache when it has returned, failed or not, and a later
\* Resolve within the TTL calls the reader for none of them.
C38_CacheHoldsSuccessfulReads ==
    /\ [][StoredView' # StoredView => StoresItsRead]_vars
    /\ [](\A i \in DOMAIN rhist :
            /\ DOMAIN rhist[i].cached
                  = (IF rin.cache THEN DOMAIN rhist[i].reads \ rin.failing ELSE {})
            /\ (i = Len(rhist) /\ rpc = "idle") =>
                  \A full \in DOMAIN rhist[i].cached :
                      /\ full \in DOMAIN entries
                      /\ entries[full].expiresAt = rhist[i].cached[full]
                      /\ heap[entries[full].data] = ReadKV(full).data
            /\ \A j \in 1..(i - 1) : \A full \in DOMAIN rhist[i].reads \cap DOMAIN rhist[j].cached :
                  full \in DOMAIN rhist[i].cached /\ rhist[i].cached[full] - ttl > rhist[j].cached[full])

\* A Resolve failed on one path and cached another; the next one read the
\* failed path only.
C38_Witness ==
    /\ Len(rhist) = 2
    /\ rhist[1].failed # {}
    /\ rhist[1].cached # <<>>
    /\ ~rhist[1].out.ok
    /\ rhist[2].hits # {}
    /\ DOMAIN rhist[2].reads = {ExpectedFull(p) : p \in rhist[1].failed}

-----------------------------------------------------------------------------
(* Claims about the discarding of cache entries *)

\* g's Get found the entry of its path expired, and the path has not been
\* set or cleared since.
FoundExpired(g) ==
    /\ GetDone(g) /\ ~gop[g].ok
    /\ gop[g].h.set /\ ~gop[g].h.cleared
    /\ gop[g].at > gop[g].h.t0 + ttl
    /\ hist[gop[g].path].set /\ hist[gop[g].path] = gop[g].h

\* C32 as stated: after a Clear every Get misses until the next Set, and
\* after a Get that found an entry expired the cache no longer holds that
\* entry.
C32_AsStated ==
    \A g \in Clients :
        /\ (GetDone(g) /\ gop[g].h.cleared) => ~gop[g].ok
        /\ FoundExpired(g) => gop[g].path \notin DOMAIN entries

-----------------------------------------------------------------------------
(* Claims about the supervisor's renewals *)

\* In this step the RenewOnce of supervisor k returns (or, for a supervisor
\* at its select, is made and returns at once).
RenewOnceOf(k) ==
    /\ k \in DOMAIN loops[1]
    /\ loops[1][k].pc \in {"entry", "renewing", "select"}
    /\ loops'[1][k].pc = "select"
    /\ \/ loops[1][k].pc # "select"
       \/ dlog'[1].renewed # dlog[1].renewed

SupervisorLeaves(k) ==
    /\ k \in DOMAIN loops[1]
    /\ loops[1][k].pc # "exited"
    /\ loops'[1][k].pc = "exited"

\* C33: the supervisor makes a RenewOnce on entry and one at each tick it
\* takes; whatever a RenewOnce returns, the supervisor goes on to its select,
\* which it leaves only on stop or cancellation; last_renewal is set to the
\* time of a RenewOnce's successful return and changes in no other step.
C33_RenewalsAndLastRenewal ==
    [][/\ \A k \in 1..MaxStarts :
             /\ (k \in DOMAIN loops[1] /\ loops[1][k].pc = "entry" /\ loops'[1][k] # loops[1][k])
                   => loops'[1][k].pc \in {"renewing", "select"}
             /\ (RenewOnceOf(k) /\ dlog'[1].renewed = "ok") => lastRenewal'[1] = now
             /\ (RenewOnceOf(k) /\ dlog'[1].renewed = "failed") => lastRenewal' = lastRenewal
             /\ SupervisorLeaves(k) =>
                   /\ loops[1][k].pc = "select"
                   /\ stopc[1] \/ k \in cancelled[1]
       /\ lastRenewal' # lastRenewal =>
             \E k \in 1..MaxStarts : RenewOnceOf(k) /\ dlog'[1].renewed = "ok"]_vars

\* After a renewal at time 1 a RenewOnce has failed: the supervisor is at its
\* select, neither stopped nor cancelled, and last_renewal is still 1.
C33_Witness ==
    /\ now = 2
    /\ lastRenewal[1] = 1
    /\ dlog[1].renewed = "failed"
    /\ \E k \in DOMAIN loops[1] :
          loops[1][k].pc = "select" /\ ~stopc[1] /\ k \notin cancelled[1]

-----------------------------------------------------------------------------
(* Claims about the forwarding loop's end *)

\* C34: the forwarding loop ends once the child has ended or the context is
\* cancelled: Run then returns, or ctx is done, and the loop returns; cleanup
\* has run only if the child was awaited.
C34_ForwardLoopEnds ==
    /\ (xrun.loop = "running" /\ (xchild.state = "exited" \/ xrun.ctx)) ~> xrun.loop = "exited"
    /\ [](xrun.pc = "returned" /\ xrun.loop # "none" => xchild.state = "exited")
    /\ [][xrun.loop = "running" /\ xrun'.loop = "exited" => xrun.pc = "returned" \/ xrun.ctx]_vars

\* Run has returned after its child ended, the context was never cancelled,
\* and the forwarding loop has returned.
C34_Witness ==
    /\ xrun.pc = "returned"
    /\ xchild.state = "exited"
    /\ ~xrun.ctx
    /\ xrun.loop = "exited"

-----------------------------------------------------------------------------
(* Claims about the renewal decision of the renewer's tests *)

-----------------------------------------------------------------------------
(* Workspace detection (internal/config/workspace.go) *)

\* Strings are sequences of characters; "vx.toml" and the flags stand for
\* themselves.
\* strings.HasPrefix(s, prefix)
HasPrefix(s, prefix) ==
    Len(prefix) <= Len(s) /\ SubSeq(s, 1, Len(prefix)) = prefix

\* strings.HasPrefix only where the prefix ends at a path separator
HasPathPrefix(s, prefix) ==
    HasPrefix(s, prefix) /\ (Len(s) = Len(prefix) \/ s[Len(prefix) + 1] = "/")

\* filepath.Dir of a clean path: all but the last element
Dir(path) ==
    IF LastIndex(path) = -1 THEN <<".">>
    ELSE IF LastIndex(path) = 0 THEN <<"/">>
    ELSE SubSeq(path, 1, LastIndex(path))

\* filepath.Base of a clean path: the last element
Base(path) ==
    IF Len(path) = 0 THEN <<".">>
    ELSE IF path = <<"/">> THEN path
    ELSE SubSeq(path, LastIndex(path) + 2, Len(path))

\* the working directory of the process, which filepath.Abs joins to a
\* relative path
Getwd == <<"/", "r">>

\* filepath.Abs of a clean path
Abs(path) ==
    IF Len(path) > 0 /\ path[1] = "/" THEN path
    ELSE IF path = <<".">> \/ path = <<>> THEN Getwd
    ELSE Getwd \o <<"/">> \o path

\* findFlagValue: the argument after the first occurrence of flag that has
\* one, or ""
findFlagValue(args, flag) ==
    IF \E i \in 1..(Len(args) - 1) : args[i] = flag
    THEN args[CHOOSE i \in 1..(Len(args) - 1) :
                 args[i] = flag /\ \A j \in 1..(i - 1) : args[j] # flag]
    ELSE <<>>

\* The loop of matchWorkspaceByPath and matchWorkspaceByCwd: the base name of
\* the first directory of dirs that is a string prefix of path, or "".
FirstMatch(path, dirs) ==
    IF \E i \in 1..Len(dirs) : HasPrefix(path, dirs[i])
    THEN Base(dirs[CHOOSE i \in 1..Len(dirs) :
                      HasPrefix(path, dirs[i]) /\ \A j \in 1..(i - 1) : ~HasPrefix(path, dirs[j])])
    ELSE <<>>

\* matchWorkspaceByPath: the directories are taken as configured
matchWorkspaceByPath(path, workspaces) ==
    FirstMatch(path, [i \in 1..Len(workspaces) |-> Dir(workspaces[i])])

\* matchWorkspaceByCwd: both sides are made absolute
matchWorkspaceByCwd(cwd, workspaces) ==
    FirstMatch(Abs(cwd), [i \in 1..Len(workspaces) |-> Abs(Dir(workspaces[i]))])

\* DetectWorkspace: -w, then --cwd, then the working directory
DetectWorkspace(args, cwd, workspaces) ==
    IF findFlagValue(args, <<"-w">>) # <<>> THEN findFlagValue(args, <<"-w">>)
    ELSE IF findFlagValue(args, <<"--cwd">>) # <<>>
    THEN matchWorkspaceByPath(findFlagValue(args, <<"--cwd">>), workspaces)
    ELSE matchWorkspaceByCwd(cwd, workspaces)

\* The manifest of a workspace directory
Manifest(dir) == dir \o <<"/", "vx.toml">>

\* Workspace directories: a, its sibling ab, and the nested p/a
WorkspaceDirs == {<<"a">>, <<"a", "b">>, <<"p", "/", "a">>}

\* Configured workspace lists
WorkspaceLists ==
    {<<>>} \cup {<<Manifest(d)>> : d \in WorkspaceDirs}
           \cup {<<Manifest(d), Manifest(e)>> : d, e \in WorkspaceDirs}

\* Working directories, absolute as os.Getwd gives them and relative as the
\* tests give them
Cwds ==
    {Getwd, Getwd \o <<"/", "a">>, Getwd \o <<"/", "a", "/", "x">>,
     Getwd \o <<"/", "a", "b">>, Getwd \o <<"/", "p", "/", "a">>, Getwd \o <<"/", "p">>,
     <<"/", "q">>, <<"a", "/", "x">>}

\* Command lines
ArgLists ==
    {<<<<"exec">>>>,
     <<<<"exec">>, <<"-w">>, <<"a">>>>,
     <<<<"exec">>, <<"-w">>, <<"a">>, <<"--cwd">>, <<"p", "/", "a">>>>,
     <<<<"exec">>, <<"--cwd">>, <<"a", "/", "x">>>>,
     <<<<"exec">>, <<"--cwd">>, <<"a", "b">>>>,
     <<<<"exec">>, <<"-w">>>>}

InitWorkspace ==
    /\ heap = <<>> /\ IdleCache /\ IdleMerge /\ IdleResolver /\ IdleTokenOnly
    /\ xrun = NilCfg /\ xchild = NilCfg /\ xsig = <<>> /\ xsent = <<>> /\ xauth = NilCfg
    /\ xout = NilCfg
    /\ \E args \in ArgLists, cwd \in Cwds, workspaces \in WorkspaceLists :
          xin = [args |-> args, cwd |-> cwd, workspaces |-> workspaces]

\* detectWorkspace of cmd/exec.go calls DetectWorkspace with the command line,
\* the working directory and the configured workspaces.
DetectWorkspaceCall ==
    /\ xout = NilCfg
    /\ xout' = [returned |-> TRUE, ws |-> DetectWorkspace(xin.args, xin.cwd, xin.workspaces)]
    /\ UNCHANGED <<heap, cacheVars, mergeVars, resolverVars, tokenVars>>
    /\ UNCHANGED <<xin, xrun, xchild, xsig, xsent, xauth>>

NextWorkspace == DetectWorkspaceCall

SpecWorkspace == InitWorkspace /\ [][NextWorkspace]_vars

-----------------------------------------------------------------------------
(* Claims about workspace detection *)

\* cwd is the directory dir or lies inside it
Inside(cwd, dir) == HasPathPrefix(Abs(cwd), dir)

\* the absolute directory of the i-th configured workspace
WsDir(i) == Abs(Dir(xin.workspaces[i]))

\* C36: with no -w and no --cwd argument, DetectWorkspace returns a workspace
\* only if cwd is its directory or lies inside it, the first such in the
\* configured order, and returns "" when cwd is inside no workspace directory;
\* a -w value takes precedence over --cwd and cwd.
C36_AsStated ==
    (xout # NilCfg) =>
        /\ (findFlagValue(xin.args, <<"-w">>) = <<>> /\ findFlagValue(xin.args, <<"--cwd">>) = <<>>) =>
              IF \E i \in 1..Len(xin.workspaces) : Inside(xin.cwd, WsDir(i))
              THEN \E i \in 1..Len(xin.workspaces) :
                      /\ Inside(xin.cwd, WsDir(i))
                      /\ \A j \in 1..(i - 1) : ~Inside(xin.cwd, WsDir(j))
                      /\ xout.ws = Base(WsDir(i))
              ELSE xout.ws = <<>>
        /\ findFlagValue(xin.args, <<"-w">>) # <<>> => xout.ws = findFlagValue(xin.args, <<"-w">>)

\* What the code does instead: the workspace returned for a working directory
\* is the first whose absolute directory is a string prefix of it.
FirstStringPrefixWins ==
    (xout # NilCfg /\ findFlagValue(xin.args, <<"-w">>) = <<>>
                   /\ findFlagValue(xin.args, <<"--cwd">>) = <<>>) =>
        IF \E i \in 1..Len(xin.workspaces) : HasPrefix(Abs(xin.cwd), WsDir(i))
        THEN \E i \in 1..Len(xin.workspaces) :
                /\ HasPrefix(Abs(xin.cwd), WsDir(i))
                /\ \A j \in 1..(i - 1) : ~HasPrefix(Abs(xin.cwd), WsDir(j))
                /\ xout.ws = Base(WsDir(i))
        ELSE xout.ws = <<>>

-----------------------------------------------------------------------------
(* Claims about the groups' paths and keys *)

\* The places (vault path, index) at which env var k appears in the groups
PlacesOf(k) ==
    {pi \in UNION {{<<p, i>> : i \in DOMAIN rcall.groups[p]} : p \in DOMAIN rcall.groups} :
        rcall.groups[pi[1]][pi[2]].EnvVar = k}

\* s starts with its only "/"
StartsWithOnlySlash(s) ==
    s # <<>> /\ s[1] = "/" /\ \A i \in 2..Len(s) : s[i] # "/"

\* s ends with "/"
EndsWithSlash(s) == s # <<>> /\ s[Len(s)] = "/"

\* C37: GroupByPath produces no group with an empty vault path and no mapping
\* with an empty key; an env var whose interpolated template starts with its
\* only "/", ends with "/" or has no "/" is in no group; and each env var of
\* the input appears in at most one group, at most once.
C37_NoEmptyPathOrKey ==
    rpc # "idle" =>
        /\ <<>> \notin DOMAIN rcall.groups
        /\ \A p \in DOMAIN rcall.groups : \A i \in DOMAIN rcall.groups[p] :
              rcall.groups[p][i].Key # <<>>
        /\ \A k \in DOMAIN rin.secrets :
              (StartsWithOnlySlash(Resolved(k)) \/ EndsWithSlash(Resolved(k))
                  \/ ~HasSlash(Resolved(k))) => k \notin GroupedEnvVars
        /\ \A k \in DOMAIN rin.secrets : Cardinality(PlacesOf(k)) <= 1

\* Secrets were grouped of which one is "${env}/k" with an empty env, another
\* ends with "/", and a third was put in a group.
C37_Witness ==
    /\ rpc # "idle"
    /\ rin.env = <<>>
    /\ \E k \in DOMAIN rin.secrets :
          rin.secrets[k] = TEnvKey /\ StartsWithOnlySlash(Resolved(k))
    /\ \E k \in DOMAIN rin.secrets : EndsWithSlash(Resolved(k))
    /\ \E k \in DOMAIN rin.secrets : Cardinality(PlacesOf(k)) = 1

-----------------------------------------------------------------------------
(* Claims about a Daemon that is started after it was stopped *)

\* C39: the first Stop succeeds, also on a Daemon that was never started;
\* d.stop, once closed, stays closed; a Start called after that returns
\* success and writes the PID file; and the supervisor of such a Start makes
\* no tick-driven renewal and removes the PID file when it exits.
C39_AsStated ==
    [][/\ (dlog'[1].stopped # dlog[1].stopped /\ ~stopc[1]) =>
              dlog'[1].last = "stop: ok" /\ stopc'[1]
       /\ stopc[1] => stopc'[1]
       /\ (stopc[1] /\ starts'[1] # starts[1]) => dlog'[1].last = "start: pending"
       /\ (stopc[1] /\ dpc[1] = "start" /\ dpc'[1] = "idle") =>
              dlog'[1].last = "start: ok" /\ pidfile' = writePIDFile(1)
       /\ \A k \in dlog[1].late :
              /\ ~LoopTick(1, k)
              /\ (k \in ActiveLoops(1) /\ k \notin ActiveLoops(1)') => pidfile' = NoFile
      ]_vars

\* The parts of C39 that hold: the first Stop succeeds, d.stop stays closed,
\* and the supervisor of a Start called after it removes the PID file when it
\* exits.
StopIsFinal ==
    [][/\ (dlog'[1].stopped # dlog[1].stopped /\ ~stopc[1]) =>
              dlog'[1].last = "stop: ok" /\ stopc'[1]
       /\ stopc[1] => stopc'[1]
       /\ (stopc[1] /\ dpc[1] = "start" /\ dpc'[1] = "idle") =>
              dlog'[1].last = "start: ok" /\ pidfile' = writePIDFile(1)
       /\ \A k \in dlog[1].late :
              (k \in ActiveLoops(1) /\ k \notin ActiveLoops(1)') => pidfile' = NoFile
      ]_vars

\* A Start called after Stop is refused.
LateStartRefused ==
    dlog[1].late # {} /\ dlog[1].last = "start: already running"

\* No supervisor of a Start called after Stop takes <-ticker.C (it does:
\* select may take a tick that is ready together with <-d.stop).
NoLateTickRenewal ==
    [][\A k \in dlog[1].late : ~LoopTick(1, k)]_vars

-----------------------------------------------------------------------------
(* Claims about the unconditional removal of the PID file *)

\* A supervisor returns in this step.
SomeLoopExits == ActiveLoops(1)' # ActiveLoops(1) /\ ActiveLoops(1)' \subseteq ActiveLoops(1)

\* A call of Stop returns in this step.
StopReturnsNow == dlog'[1].stopped # dlog[1].stopped

\* Only the end of a Start puts a PID file where there was none.
OnlyStartWrites ==
    (pidfile = NoFile /\ pidfile' # NoFile) => (dpc[1] = "start" /\ dpc'[1] = "idle")

\* C40 as stated: after the step in which a supervisor exits or any Stop
\* returns, the PID file is absent and IsRunning is false, whatever PID the
\* file held, and it stays absent until a Start writes it.
C40_AsStated ==
    [][/\ (SomeLoopExits \/ StopReturnsNow) => (pidfile' = NoFile /\ ~IsRunning(pidfile'))
       /\ OnlyStartWrites]_vars

\* C40, amended: after the step in which a supervisor exits or a Stop returns
\* nil, the PID file is absent and IsRunning is false, whatever PID the file
\* held, and it stays absent until a Start writes it.
C40_RemovedWhoeverWrote ==
    [][/\ (SomeLoopExits \/ (StopReturnsNow /\ dlog'[1].last = "stop: ok")) =>
              (pidfile' = NoFile /\ ~IsRunning(pidfile'))
       /\ OnlyStartWrites]_vars

\* Start was refused because the PID file named another live process; the
\* Stop that followed succeeded and the file of that process is gone.
C40_Witness ==
    /\ dlog[1].last = "stop: ok"
    /\ dlog[1].okctx = 0
    /\ dlog[1].file \in {writePIDFile(n) : n \in OtherLivePids}
    /\ pidfile = NoFile
    /\ ~IsRunning(pidfile)

====
